---- MODULE Spec2Model ----
(***************************************************************************)
(* RoriCode orchestration core: the event bus with its circuit breaker     *)
(* (internal/eventbus/bus.go), the conversation state                      *)
(* (internal/core/state.go) and the chat service                           *)
(* (internal/core/service.go).                                             *)
(***************************************************************************)
EXTENDS Integers, Sequences, FiniteSets, TLC

(***************************************************************************)
(* Bounds of the model.                                                    *)
(***************************************************************************)
\* Capacity of each bus channel. bus.go:125-126 makes both with 100 slots;
\* the model keeps the capacity a parameter and checks a small one.
ChanCap == 2
\* resetTimeout in clock ticks. bus.go:127 passes 30 seconds; the clock of
\* the model is quantised so that the timeout is this many ticks.
ResetTimeout == 2
\* failureCount is an unbounded Go int: sends that would fail are not
\* started once the count has reached this cap.
MaxCount == 8
\* Most tool calls one completion response carries.
MaxCalls == 2
\* Completion responses with more than the plain single call, per run.
MaxRichRounds == 1
\* SendMessage events the user types, per run.
MaxUserMsgs == 1
\* Goroutines running handleToolResult at the same time.
MaxJobs == 3
\* Confirmation requests per run (each gets a fresh id).
MaxConfirms == 2
\* Confirmation responses per run that answer no pending confirmation.
MaxOthers == 1
\* User messages per run of the specification of overlapping conversations.
MaxOverlapMsgs == 2
\* Rounds of tool calls per run of the specification of tool executions.
MaxToolRounds == 2
\* User messages per run of the specification of rounds ended by an error
MaxRetryMsgs == 2
\* Rounds of tool calls per run of the specification of a slow terminal.
MaxSlowRounds == 1
\* Rounds of tool calls per run of the specification of concurrent pushes.
MaxSplitRounds == 1
\* Goroutines that may be inside a send call of the bus at the same time.
MaxSenders == 2
\* Send calls per run of the bus with several callers.
MaxRaceCalls == 5

(***************************************************************************)
(* Program constants.                                                      *)
(***************************************************************************)
\* NewCircuitBreaker(5, ...) in NewEventBus
MaxFailures == 5
\* maxRecursionDepth in NewChatState
MaxRecursionDepth == 5

VARIABLES
    eb,         \* the EventBus: channels, errorCallback, circuitBreaker
    busCall,    \* the send call in progress on the bus (one caller at a time)
    lastSend,   \* what the last finished send call returned
    \* ChatState (state.go:14-25)
    chatHistory,
    isProcessing,
    lastError,
    pendingToolCalls,
    recursionDepth,
    \* ChatService (service.go:18-29)
    client,             \* FALSE when the client is nil
    ctxDone,            \* the root context is cancelled
    lastSentCount,
    pendingConfirms,    \* the ids that have a response channel in the map
    respChans,          \* the response channels (capacity 1), by id
    \* goroutines
    tasks,              \* 0: the event loop; 1..MaxJobs: handleToolResult
    \* the terminal side
    ui,
    \* bookkeeping of what has happened, read by the properties only
    conv,               \* the conversation started by the last user message
    barrier,            \* the last completion response that carried tool calls
    confLog,            \* per confirmation id: what was delivered and returned
    pushLog,            \* what pushStateToUI has emitted
    \* tools.Registry
    executions,         \* the goroutines started by ExecuteAsync, by job
    \* callers of the bus
    sendCalls,          \* the send calls in progress, by calling goroutine
    \* callers of pushStateToUI
    pushCalls           \* the pushes in progress that run statement by statement

busVars == <<eb, busCall, lastSend>>
stateVars == <<chatHistory, isProcessing, lastError, pendingToolCalls,
               recursionDepth>>
confVars == <<pendingConfirms, respChans>>
logVars == <<conv, barrier, confLog>>
pushVars == <<lastSentCount, pushLog, pushCalls>>
envVars == <<client, executions, sendCalls>>
coreVars == <<chatHistory, isProcessing, lastError, pendingToolCalls,
              recursionDepth, client, ctxDone, lastSentCount, pendingConfirms,
              respChans, tasks, ui, conv, barrier, confLog, pushLog,
              executions, sendCalls, pushCalls>>
serviceVars == <<chatHistory, isProcessing, lastError, pendingToolCalls,
                 recursionDepth, client, ctxDone, lastSentCount,
                 pendingConfirms, respChans, tasks, ui, conv, barrier,
                 confLog, pushLog, executions, pushCalls>>

vars == <<eb, busCall, lastSend, chatHistory, isProcessing, lastError,
          pendingToolCalls, recursionDepth, client, ctxDone, lastSentCount,
          pendingConfirms, respChans, tasks, ui, conv, barrier, confLog,
          pushLog, executions, sendCalls, pushCalls>>

(***************************************************************************)
(* CircuitBreaker (bus.go:66-113). sinceLastFailure stands for             *)
(* time.Since(cb.lastFailureTime), saturated just above resetTimeout.      *)
(***************************************************************************)
CircuitClosed == "closed"
CircuitOpen == "open"
CircuitHalfOpen == "half-open"

NewCircuitBreaker ==
    [state |-> CircuitClosed, failureCount |-> 0,
     sinceLastFailure |-> ResetTimeout + 1]

\* IsOpen: the lazily evaluated open -> half-open transition, and the answer.
IsOpenState(cb) ==
    IF cb.state = CircuitOpen /\ cb.sinceLastFailure > ResetTimeout
    THEN [cb EXCEPT !.state = CircuitHalfOpen]
    ELSE cb

\* Variant the properties must reject: a breaker that never reports open.
IsOpenNever(cb) == FALSE

IsOpen(cb) == IsOpenState(cb).state = CircuitOpen

\* Variant the properties must reject: a success that resets the count but not the state.
RecordSuccessKeepsState(cb) == [cb EXCEPT !.failureCount = 0]

RecordSuccess(cb) ==
    [cb EXCEPT !.failureCount = 0, !.state = CircuitClosed]

\* Variant the properties must reject: a breaker that opens one failure late.
RecordFailureOffByOne(cb) ==
    LET n == cb.failureCount + 1
    IN  [cb EXCEPT !.failureCount = n,
                   !.sinceLastFailure = 0,
                   !.state = IF n > MaxFailures THEN CircuitOpen ELSE @]

RecordFailure(cb) ==
    LET n == cb.failureCount + 1
    IN  [cb EXCEPT !.failureCount = n,
                   !.sinceLastFailure = 0,
                   !.state = IF n >= MaxFailures THEN CircuitOpen ELSE @]

(***************************************************************************)
(* EventBus (bus.go:115-200).                                              *)
(***************************************************************************)
NewEventBus ==
    [uiToCore |-> <<>>, coreToUI |-> <<>>, errorCallback |-> FALSE,
     circuitBreaker |-> NewCircuitBreaker]

ErrNil == "nil"
ErrCircuitOpen == "circuit breaker is open"
ErrChannelFull == "channel is full"

\* Variant the properties must reject: an error report that records no failure.
reportErrorNoRecord(b) == [eb |-> b, fired |-> b.errorCallback]

\* reportError: records the failure; fired tells whether the callback ran.
reportError(b) ==
    [eb |-> [b EXCEPT !.circuitBreaker = RecordFailure(b.circuitBreaker)],
     fired |-> b.errorCallback]

\* The channel of a send operation.
ChanOf(op) == IF op = "SendToCore" THEN "uiToCore" ELSE "coreToUI"

\* First half of SendToCore / SendToUI: the IsOpen() check.
SendCheck(b) == [b EXCEPT !.circuitBreaker = IsOpenState(b.circuitBreaker)]

\* The rejected branch: reportError and return the circuit-open error.
SendRejected(b) ==
    LET r == reportError(b)
    IN  [eb |-> r.eb, err |-> ErrCircuitOpen, fired |-> r.fired]

\* Second half: the non-blocking select on the channel.
SendAttempt(b, op, ev) ==
    IF Len(b[ChanOf(op)]) < ChanCap
    THEN [eb |-> [b EXCEPT ![ChanOf(op)] = Append(@, ev),
                           !.circuitBreaker = RecordSuccess(b.circuitBreaker)],
          err |-> ErrNil, fired |-> FALSE]
    ELSE LET r == reportError(b)
         IN  [eb |-> r.eb, err |-> ErrChannelFull, fired |-> r.fired]

\* A whole send call, run without interruption.
Send(b, op, ev) ==
    IF IsOpen(b.circuitBreaker)
    THEN SendRejected(SendCheck(b))
    ELSE SendAttempt(SendCheck(b), op, ev)

SendToCore(b, ev) == Send(b, "SendToCore", ev)
SendToUI(b, ev) == Send(b, "SendToUI", ev)

(***************************************************************************)
(* Data: tool calls, completion responses, messages (state.go, models).    *)
(***************************************************************************)
\* A tool call of a completion response: its id, whether its argument
\* string parses as a JSON map, and what the named tool does.
ToolCall(id, ok, tool) == [id |-> id, ok |-> ok, tool |-> tool]
NoToolCall == ToolCall(0, TRUE, "none")

UserMsg == [role |-> "user", content |-> "u", calls |-> <<>>, id |-> 0]

\* GetChatHistoryWithSystemPrompt (state.go:108-127): a copy of the history
\* with the system message in front of it.
SystemMsg == [role |-> "system", content |-> "s", calls |-> <<>>, id |-> 0]
GetChatHistoryWithSystemPrompt(h) == <<SystemMsg>> \o h
AssistantMsg(content, calls) ==
    [role |-> "assistant", content |-> content, calls |-> calls, id |-> 0]
ToolMsg(id, content) ==
    [role |-> "tool", content |-> content, calls |-> <<>>, id |-> id]

ErrNoClient == "OpenAI integration not available"
ErrRecursion == "maximum tool call recursion depth reached"
ErrAPI == "OpenAI API error"

RespError == [kind |-> "error", content |-> "", calls |-> <<>>]
RespNoChoice == [kind |-> "empty", content |-> "", calls |-> <<>>]
RespMessage(content, calls) ==
    [kind |-> "message", content |-> content, calls |-> calls]

(***************************************************************************)
(* ChatState (state.go). Every method holds the mutex for its whole body,  *)
(* so every method is one step.                                            *)
(***************************************************************************)
\* addWelcomeMessages (service.go:213-234): five program messages with a
\* valid profile, seven without.
ProgramMessages(valid) ==
    [k \in 1..(IF valid THEN 5 ELSE 7) |->
        [Type |-> "Program", Content |-> "p", ToolCallID |-> 0]]

\* The messages GetMessages makes of one history entry.
RECURSIVE ToolCallMessages(_)
ToolCallMessages(calls) ==
    IF calls = <<>> THEN <<>>
    ELSE <<[Type |-> "ToolCall", Content |-> "args",
            ToolCallID |-> Head(calls).id]>>
         \o ToolCallMessages(Tail(calls))

MessagesOf(m) ==
    CASE m.role = "user" ->
           <<[Type |-> "User", Content |-> m.content, ToolCallID |-> 0]>>
      [] m.role = "assistant" ->
           (IF m.content # ""
            THEN <<[Type |-> "Assistant", Content |-> m.content,
                    ToolCallID |-> 0]>>
            ELSE <<>>) \o ToolCallMessages(m.calls)
      [] m.role = "tool" ->
           <<[Type |-> "ToolResult", Content |-> m.content,
              ToolCallID |-> m.id]>>
      [] OTHER -> <<>>

RECURSIVE ConvertHistory(_)
ConvertHistory(h) ==
    IF h = <<>> THEN <<>>
    ELSE MessagesOf(Head(h)) \o ConvertHistory(Tail(h))

GetMessages == ProgramMessages(client) \o ConvertHistory(chatHistory)

\* Variant the properties must reject: a result that is written over the last tool message.
AddToolResultMessageInPlace(h, callID, result) ==
    IF h # <<>> /\ h[Len(h)].role = "tool"
    THEN [h EXCEPT ![Len(h)] = ToolMsg(callID, result)]
    ELSE Append(h, ToolMsg(callID, result))

AddToolResultMessage(h, callID, result) == Append(h, ToolMsg(callID, result))

AddAssistantMessageWithToolCalls(h, content, calls) ==
    Append(h, AssistantMsg(content, calls))

AddPendingToolCall(p, callID) == p \cup {callID}

\* Variant the properties must reject: a completion that always reports the set empty.
CompletePendingAlways(p, callID) ==
    [pending |-> p \ {callID}, allComplete |-> TRUE]

\* CompletePendingToolCall: the removal and the emptiness test, together.
CompletePendingToolCall(p, callID) ==
    [pending |-> p \ {callID}, allComplete |-> (p \ {callID}) = {}]

\* Variant the properties must reject: a limit test that lets one more call through.
CanRecurseOffByOne(depth) == depth <= MaxRecursionDepth

CanRecurse(depth) == depth < MaxRecursionDepth

IncrementRecursion(depth) == depth + 1

(***************************************************************************)
(* Goroutines. Task 0 is the event loop; tasks 1..MaxJobs each run one     *)
(* ExecuteAsync goroutine followed by the handleToolResult goroutine that  *)
(* waits for its result. A task that finds the barrier complete goes on    *)
(* into continueConversation, as the code does.                            *)
(***************************************************************************)
Jobs == 1..MaxJobs
Tasks == 0..MaxJobs

\* calls, i: the tool calls of the handleToolCalls being run and the index
\* of the loop; frames: the handleToolCalls loops suspended below it on the
\* call stack; call: the tool call of the job; conf: the id of its
\* confirmation request; val: the value last computed (CanRecurse,
\* allComplete, approved).
IdleTask(pc) ==
    [pc |-> pc, resp |-> RespNoChoice, calls |-> <<>>, i |-> 0,
     frames |-> <<>>, call |-> NoToolCall, conf |-> 0, val |-> FALSE]

\* after: lastError as the last user message found it.
NoConv == [active |-> FALSE, api |-> 0, allTool |-> TRUE, after |-> ErrNil]
NoBarrier ==
    [n |-> 0, ids |-> <<>>, at |-> 0, continues |-> 0, rich |-> 0,
     confirms |-> 0]
ConfIds == 1..MaxConfirms
\* An id no confirmation request carries.
UnknownId == MaxConfirms + 1
NoConfLog ==
    [delivered |-> <<>>, received |-> <<>>, returned |-> <<>>,
     via |-> "none", cancelled |-> FALSE]
\* A ToolResult (tools.ToolResult): the zero value, and the goroutine of an
\* ExecuteAsync call: where it is, its call, its result channel (capacity
\* 1) and whether that is closed, its local toolResult; written: everything
\* it has sent on the channel; executed: it has called the tool's Execute;
\* handled: handleToolResult has received from the channel.
ZeroResult == [CallID |-> 0, Result |-> "null", Error |-> ""]
NoExecution ==
    [pc |-> "none", call |-> NoToolCall, resultChan |-> <<>>,
     closed |-> FALSE, toolResult |-> ZeroResult, written |-> <<>>,
     executed |-> FALSE, handled |-> FALSE]
NoEvent ==
    [type |-> "none", Messages |-> <<>>, IsProcessing |-> FALSE,
     Error |-> ErrNil]
\* emitted: the messages of every StateUpdate built so far, in order; last:
\* the last StateUpdate built; dropped: the updates SendToUI returned an
\* error for (service.go:196-201 logs each).
NoPushLog == [emitted |-> <<>>, last |-> NoEvent, dropped |-> 0]

\* A goroutine inside pushStateToUI that runs it statement by statement:
\* where it is, and its locals: n, the length of allMessages (the projection
\* only grows, so allMessages is the first n messages of it), isProcessing,
\* lastError and newMessages.
NoPushCall ==
    [pc |-> "none", n |-> 0, proc |-> FALSE, err |-> ErrNil, new |-> <<>>]

\* A goroutine inside SendToCore / SendToUI: where it is, which of the two
\* it called, and n, the failureCount it has read in RecordFailure.
\* window: since the last moment no send call was in progress, base is the
\* failureCount of that moment, k the calls that have returned an error,
\* valid whether no call has taken the success branch. started: the calls
\* entered so far.
Senders == 1..MaxSenders
NoSendCall == [pc |-> "idle", op |-> "none", n |-> 0]
NoSendCalls ==
    [call |-> [s \in Senders |-> NoSendCall],
     window |-> [base |-> 0, k |-> 0, valid |-> FALSE],
     started |-> 0]

InitCore ==
    /\ chatHistory = <<>>
    /\ isProcessing = FALSE
    /\ lastError = ErrNil
    /\ pendingToolCalls = {}
    /\ recursionDepth = 0
    /\ client \in BOOLEAN
    /\ ctxDone = FALSE
    /\ lastSentCount = 0
    /\ pendingConfirms = {}
    /\ respChans = [c \in ConfIds |-> <<>>]
    /\ tasks = [t \in Tasks |-> IdleTask(IF t = 0 THEN "new" ELSE "free")]
    /\ ui = [PendingConfirmation |-> 0, sent |-> 0, others |-> 0,
             stalled |-> FALSE, Messages |-> <<>>, Loading |-> FALSE]
    /\ conv = NoConv
    /\ barrier = NoBarrier
    /\ confLog = [c \in ConfIds |-> NoConfLog]
    /\ pushLog = NoPushLog
    /\ executions = [j \in Jobs |-> NoExecution]
    /\ sendCalls = NoSendCalls
    /\ pushCalls = [t \in Tasks |-> NoPushCall]

(***************************************************************************)
(* The bus on its own: one caller at a time issues SendToCore / SendToUI,  *)
(* the readers take events off the channels, and time passes.              *)
(***************************************************************************)
BusUIEvents == {[type |-> "SendMessage", Message |-> "u"]}
BusCoreEvents == {[type |-> "ConfirmationRequest", ID |-> 0]}

NoCall == [op |-> "none", ev |-> "none", pc |-> "idle"]
\* lastSend records how the last send returned. Its last two fields are
\* clocks read off the same ticks as sinceLastFailure: sinceOpened is the
\* time since the breaker last went from not open to open (bus.go:109-111),
\* maxGap the longest time between two recorded failures since then. Both
\* saturate just above resetTimeout.
NoSend ==
    [op |-> "none", err |-> ErrNil, fired |-> FALSE, consecutive |-> 0,
     sinceOpened |-> 0, maxGap |-> 0]

InitBus ==
    /\ eb = NewEventBus
    /\ busCall = NoCall
    /\ lastSend = NoSend
    /\ InitCore

\* A caller enters SendToCore(ev) or SendToUI(ev).
CallSend(op, ev) ==
    /\ busCall.pc = "idle"
    /\ eb.circuitBreaker.failureCount < MaxCount
    /\ busCall' = [op |-> op, ev |-> ev, pc |-> "check"]
    /\ UNCHANGED <<eb, lastSend>>
    /\ UNCHANGED coreVars

\* Variant the properties must reject: a breaker that rejects only the direction whose send failed last.
SendIsOpenOwnDirection ==
    /\ busCall.pc = "check"
    /\ eb' = SendCheck(eb)
    /\ busCall' = [busCall EXCEPT !.pc =
                     IF IsOpen(eb.circuitBreaker) /\ lastSend.op = busCall.op
                     THEN "rejected" ELSE "select"]
    /\ UNCHANGED lastSend
    /\ UNCHANGED coreVars

\* bus.go:150 / 168: if eb.circuitBreaker.IsOpen()
SendIsOpen ==
    /\ busCall.pc = "check"
    /\ eb' = SendCheck(eb)
    /\ busCall' = [busCall EXCEPT !.pc =
                     IF IsOpen(eb.circuitBreaker) THEN "rejected" ELSE "select"]
    /\ UNCHANGED lastSend
    /\ UNCHANGED coreVars

Opens(r) ==
    /\ eb.circuitBreaker.state # CircuitOpen
    /\ r.eb.circuitBreaker.state = CircuitOpen

Returned(op, r) ==
    [op |-> op, err |-> r.err, fired |-> r.fired,
     consecutive |-> IF r.err = ErrNil THEN 0 ELSE lastSend.consecutive + 1,
     sinceOpened |-> IF Opens(r) THEN 0 ELSE lastSend.sinceOpened,
     maxGap |-> IF Opens(r) THEN 0
                ELSE IF r.err = ErrNil
                        \/ eb.circuitBreaker.sinceLastFailure <= lastSend.maxGap
                     THEN lastSend.maxGap
                     ELSE eb.circuitBreaker.sinceLastFailure]

\* bus.go:151-153 / 169-171: the circuit-open return.
SendReturnOpen ==
    /\ busCall.pc = "rejected"
    /\ LET r == SendRejected(eb)
       IN  /\ eb' = r.eb
           /\ lastSend' = Returned(busCall.op, r)
    /\ busCall' = NoCall
    /\ UNCHANGED coreVars

\* bus.go:156-164 / 174-182: the select with its default branch.
SendSelect ==
    /\ busCall.pc = "select"
    /\ LET r == SendAttempt(eb, busCall.op, busCall.ev)
       IN  /\ eb' = r.eb
           /\ lastSend' = Returned(busCall.op, r)
    /\ busCall' = NoCall
    /\ UNCHANGED coreVars

\* The reader of a channel takes its first event (bus.go:185-191).
Receive(ch) ==
    /\ eb[ch] # <<>>
    /\ eb' = [eb EXCEPT ![ch] = Tail(@)]
    /\ UNCHANGED <<busCall, lastSend>>
    /\ UNCHANGED coreVars

\* Time passes: one tick more since the last recorded failure.
Tick ==
    /\ eb.circuitBreaker.sinceLastFailure <= ResetTimeout
    /\ eb' = [eb EXCEPT !.circuitBreaker.sinceLastFailure = @ + 1]
    /\ lastSend' = [lastSend EXCEPT !.sinceOpened =
                       IF eb.circuitBreaker.state = CircuitOpen
                          /\ @ <= ResetTimeout
                       THEN @ + 1 ELSE @]
    /\ UNCHANGED busCall
    /\ UNCHANGED coreVars

SetErrorCallback ==
    /\ ~eb.errorCallback
    /\ eb' = [eb EXCEPT !.errorCallback = TRUE]
    /\ UNCHANGED <<busCall, lastSend>>
    /\ UNCHANGED coreVars

NextBus ==
    \/ \E ev \in BusUIEvents : CallSend("SendToCore", ev)
    \/ \E ev \in BusCoreEvents : CallSend("SendToUI", ev)
    \/ SendIsOpen
    \/ SendReturnOpen
    \/ SendSelect
    \/ \E ch \in {"uiToCore", "coreToUI"} : Receive(ch)
    \/ Tick
    \/ SetErrorCallback

SpecBus == InitBus /\ [][NextBus]_vars

(***************************************************************************)
(* The bus with several callers at a time. The EventBus and its            *)
(* CircuitBreaker hold no lock (bus.go:73-79, 115-120): the event loop and *)
(* the tool-result goroutines call SendToUI, the terminal's goroutine      *)
(* calls SendToCore, and the reads and writes of the breaker's fields by   *)
(* these calls interleave. A channel operation is one step; each read and  *)
(* each write of a field of the breaker is one step.                       *)
(***************************************************************************)
AllIdle == \A s \in Senders : sendCalls.call[s].pc = "idle"

SetCall(s, rec) == [sendCalls EXCEPT !.call[s] = rec]

\* A goroutine enters SendToCore or SendToUI.
EnterSend(s, op) ==
    /\ sendCalls.call[s].pc = "idle"
    /\ sendCalls.started < MaxRaceCalls
    /\ sendCalls' =
          [call |-> [sendCalls.call EXCEPT ![s] = [pc |-> "check", op |-> op, n |-> 0]],
           window |-> IF AllIdle
                      THEN [base |-> eb.circuitBreaker.failureCount, k |-> 0,
                            valid |-> TRUE]
                      ELSE sendCalls.window,
           started |-> sendCalls.started + 1]
    /\ UNCHANGED <<eb, busCall, lastSend, serviceVars>>

\* bus.go:150 / 168: if eb.circuitBreaker.IsOpen()
RaceIsOpen(s) ==
    /\ sendCalls.call[s].pc = "check"
    /\ eb' = SendCheck(eb)
    /\ sendCalls' = SetCall(s, [sendCalls.call[s] EXCEPT !.pc =
                        IF IsOpen(eb.circuitBreaker) THEN "load" ELSE "select"])
    /\ UNCHANGED <<busCall, lastSend, serviceVars>>

\* bus.go:156-164 / 174-182: the select; its default branch goes on into
\* reportError.
RaceSelect(s) ==
    /\ sendCalls.call[s].pc = "select"
    /\ LET ch == ChanOf(sendCalls.call[s].op)
           ev == IF ch = "uiToCore" THEN [type |-> "SendMessage", Message |-> "u"]
                 ELSE [type |-> "ConfirmationRequest", ID |-> 0]
       IN  IF Len(eb[ch]) < ChanCap
           THEN /\ eb' = [eb EXCEPT ![ch] = Append(@, ev)]
                /\ sendCalls' = [sendCalls EXCEPT !.call[s].pc = "success",
                                                  !.window.valid = FALSE]
           ELSE /\ sendCalls' = SetCall(s, [sendCalls.call[s] EXCEPT !.pc = "load"])
                /\ UNCHANGED eb
    /\ UNCHANGED <<busCall, lastSend, serviceVars>>

\* RecordFailure (bus.go:105-112). cb.failureCount++ : the read ...
RecordFailureLoad(s) ==
    /\ sendCalls.call[s].pc = "load"
    /\ sendCalls' = SetCall(s, [sendCalls.call[s] EXCEPT
                                  !.pc = "store",
                                  !.n = eb.circuitBreaker.failureCount])
    /\ UNCHANGED <<eb, busCall, lastSend, serviceVars>>

\* ... and the write.
RecordFailureStore(s) ==
    /\ sendCalls.call[s].pc = "store"
    /\ eb' = [eb EXCEPT !.circuitBreaker.failureCount = sendCalls.call[s].n + 1]
    /\ sendCalls' = SetCall(s, [sendCalls.call[s] EXCEPT !.pc = "time"])
    /\ UNCHANGED <<busCall, lastSend, serviceVars>>

\* cb.lastFailureTime = time.Now()
RecordFailureTime(s) ==
    /\ sendCalls.call[s].pc = "time"
    /\ eb' = [eb EXCEPT !.circuitBreaker.sinceLastFailure = 0]
    /\ sendCalls' = SetCall(s, [sendCalls.call[s] EXCEPT !.pc = "trip"])
    /\ UNCHANGED <<busCall, lastSend, serviceVars>>

\* if cb.failureCount >= cb.maxFailures { cb.state = CircuitOpen }, and the
\* send call returns its error.
RecordFailureTrip(s) ==
    /\ sendCalls.call[s].pc = "trip"
    /\ eb' = [eb EXCEPT !.circuitBreaker.state =
                 IF eb.circuitBreaker.failureCount >= MaxFailures
                 THEN CircuitOpen ELSE @]
    /\ sendCalls' = [sendCalls EXCEPT !.call[s] = NoSendCall,
                                      !.window.k = @ + 1]
    /\ UNCHANGED <<busCall, lastSend, serviceVars>>

\* RecordSuccess (bus.go:100-103): cb.failureCount = 0 ...
RecordSuccessCount(s) ==
    /\ sendCalls.call[s].pc = "success"
    /\ eb' = [eb EXCEPT !.circuitBreaker.failureCount = 0]
    /\ sendCalls' = SetCall(s, [sendCalls.call[s] EXCEPT !.pc = "closed"])
    /\ UNCHANGED <<busCall, lastSend, serviceVars>>

\* ... cb.state = CircuitClosed, and the send call returns nil.
RecordSuccessState(s) ==
    /\ sendCalls.call[s].pc = "closed"
    /\ eb' = [eb EXCEPT !.circuitBreaker.state = CircuitClosed]
    /\ sendCalls' = SetCall(s, NoSendCall)
    /\ UNCHANGED <<busCall, lastSend, serviceVars>>

\* The bus with MaxSenders goroutines calling it and readers that have
\* stopped taking events.
NextRace ==
    \/ \E s \in Senders :
         \/ \E op \in {"SendToCore", "SendToUI"} : EnterSend(s, op)
         \/ RaceIsOpen(s)
         \/ RaceSelect(s)
         \/ RecordFailureLoad(s)
         \/ RecordFailureStore(s)
         \/ RecordFailureTime(s)
         \/ RecordFailureTrip(s)
         \/ RecordSuccessCount(s)
         \/ RecordSuccessState(s)

SpecRace == InitBus /\ [][NextRace]_vars

(***************************************************************************)
(* ChatService (service.go). Each step below is one call into ChatState,   *)
(* the bus or the confirmation table, together with the branch the code    *)
(* takes on what the call returned.                                        *)
(***************************************************************************)
SetTask(t, rec) == tasks' = [tasks EXCEPT ![t] = rec]

\* Variant the properties must reject: an update that carries the whole projection.
StateUpdateAll ==
    [type |-> "StateUpdate",
     Messages |-> GetMessages,
     IsProcessing |-> isProcessing,
     Error |-> lastError]

\* pushStateToUI (service.go:183-202): the new messages of the projection,
\* with the flags; a send error is printed and dropped.
StateUpdateEvent ==
    [type |-> "StateUpdate",
     Messages |-> SubSeq(GetMessages, lastSentCount + 1, Len(GetMessages)),
     IsProcessing |-> isProcessing,
     Error |-> lastError]

\* Variant the properties must reject: a push that waits until the bus takes the update.
pushStateToUIBlocking ==
    /\ SendToUI(eb, StateUpdateEvent).err = ErrNil
    /\ lastSentCount' = Len(GetMessages)
    /\ eb' = SendToUI(eb, StateUpdateEvent).eb
    /\ pushLog' = [emitted |-> pushLog.emitted \o StateUpdateEvent.Messages,
                   last |-> StateUpdateEvent,
                   dropped |-> pushLog.dropped]
    /\ pushCalls' = pushCalls

pushStateToUI ==
    /\ lastSentCount' = Len(GetMessages)
    /\ eb' = SendToUI(eb, StateUpdateEvent).eb
    /\ pushLog' = [emitted |-> pushLog.emitted \o StateUpdateEvent.Messages,
                   last |-> StateUpdateEvent,
                   dropped |-> pushLog.dropped +
                      (IF SendToUI(eb, StateUpdateEvent).err = ErrNil
                       THEN 0 ELSE 1)]
    /\ pushCalls' = pushCalls

\* Where a task goes on when continueConversation returns: into the
\* handleToolCalls loop that called it (service.go:273-276), or out of
\* processMessage / handleToolResult, which ends the task's work.
RECURSIVE AfterContinue(_, _)
NextCall(t, tk) ==
    IF tk.i < Len(tk.calls)
    THEN [tk EXCEPT !.i = @ + 1, !.pc = "htc_push"]
    ELSE AfterContinue(t, tk)

AfterContinue(t, tk) ==
    IF tk.frames # <<>>
    THEN NextCall(t, [tk EXCEPT !.calls = Head(tk.frames).calls,
                                !.i = Head(tk.frames).i,
                                !.frames = Tail(tk.frames)])
    ELSE IdleTask(IF t = 0 THEN "idle" ELSE "free")

\* Start (service.go:74-78): the first push, then the event loop runs.
Start ==
    /\ tasks[0].pc = "new"
    /\ pushStateToUI
    /\ SetTask(0, IdleTask("idle"))
    /\ UNCHANGED <<busCall, lastSend, stateVars, envVars, ctxDone, confVars,
                   ui, logVars>>

\* Variant the properties must reject: a cancellation that makes a parked wait evaluate its select again.
ReleaseKeepsWaiting(t, tk) ==
    IF t = 0 /\ tk.pc = "parked" THEN IdleTask("stopped")
    ELSE IF tk.pc = "rc_parked" THEN [tk EXCEPT !.pc = "rc_wait"]
    ELSE tk

\* A task parked in a select on the Done channel of the root context, as
\* the cancellation releases it: the event loop returns, a confirmation
\* wait takes its Done branch. Any other task is as it was.
ReleasedByCancel(t, tk) ==
    IF t = 0 /\ tk.pc = "parked" THEN IdleTask("stopped")
    ELSE IF tk.pc = "rc_parked" THEN [tk EXCEPT !.pc = "rc_cancel", !.val = FALSE]
    ELSE tk

\* Stop (service.go:80-82): cancels the root context, which closes its Done
\* channel and so releases every task parked on it.
Stop ==
    /\ ~ctxDone
    /\ tasks[0].pc # "new"
    /\ ctxDone' = TRUE
    /\ tasks' = [t \in Tasks |-> ReleasedByCancel(t, tasks[t])]
    /\ confLog' = [c \in ConfIds |->
                     IF \E j \in Jobs :
                            tasks[j].pc = "rc_parked" /\ tasks[j].conf = c
                     THEN [confLog[c] EXCEPT !.cancelled = TRUE]
                     ELSE confLog[c]]
    /\ UNCHANGED <<busVars, stateVars, envVars, pushVars, confVars,
                   ui, conv, barrier>>

\* eventLoop (service.go:84-96). The select, evaluated with the context
\* cancelled, takes the Done branch ...
EventLoopDone ==
    /\ tasks[0].pc = "idle"
    /\ ctxDone
    /\ SetTask(0, IdleTask("stopped"))
    /\ UNCHANGED <<busVars, stateVars, envVars, ctxDone, pushVars,
                   confVars, ui, logVars>>

\* Variant the properties must reject: an event loop that takes no event while a confirmation is awaited.
EventLoopReceiveAfterConfirm ==
    /\ \A j \in Jobs : tasks[j].pc \notin {"rc_wait", "rc_parked"}
    /\ tasks[0].pc \in {"idle", "woken"}
    /\ eb.uiToCore # <<>>
    /\ eb' = [eb EXCEPT !.uiToCore = Tail(@)]
    /\ LET ev == Head(eb.uiToCore)
       IN  SetTask(0, IF ev.type = "SendMessage"
                      THEN IdleTask("pm_start")
                      ELSE [IdleTask("hcr") EXCEPT !.conf = ev.ID,
                                                   !.val = ev.Approved])
    /\ UNCHANGED <<busCall, lastSend, stateVars, envVars, ctxDone,
                   pushVars, confVars, ui, logVars>>

\* ... with an event waiting on UIToCore, or released by the send of one,
\* the event branch (either branch when both can proceed) ...
EventLoopReceive ==
    /\ tasks[0].pc \in {"idle", "woken"}
    /\ eb.uiToCore # <<>>
    /\ eb' = [eb EXCEPT !.uiToCore = Tail(@)]
    /\ LET ev == Head(eb.uiToCore)
       IN  SetTask(0, IF ev.type = "SendMessage"
                      THEN IdleTask("pm_start")
                      ELSE [IdleTask("hcr") EXCEPT !.conf = ev.ID,
                                                   !.val = ev.Approved])
    /\ UNCHANGED <<busCall, lastSend, stateVars, envVars, ctxDone,
                   pushVars, confVars, ui, logVars>>

\* ... and with neither it parks the task until one of them can proceed.
EventLoopPark ==
    /\ tasks[0].pc = "idle"
    /\ ~ctxDone
    /\ eb.uiToCore = <<>>
    /\ SetTask(0, IdleTask("parked"))
    /\ UNCHANGED <<busVars, stateVars, envVars, ctxDone, pushVars,
                   confVars, ui, logVars>>

\* The tasks after a send to the core that returned r: a send that put its
\* event on UIToCore releases the event loop parked there, which then takes
\* the event branch.
ReleasedBySend(r) ==
    IF r.err = ErrNil /\ tasks[0].pc = "parked"
    THEN [tasks EXCEPT ![0] = IdleTask("woken")]
    ELSE tasks

\* Variant the properties must reject: a lookup that falls back on any registered channel.
LookupAny(table, id) ==
    IF id \in table THEN id
    ELSE IF table # {} THEN CHOOSE x \in table : TRUE ELSE 0

\* handleConfirmationResponse (service.go:381-394)
\* 382-384: the channel registered under the id (named by the id), 0 for
\* none.
Lookup(table, id) == IF id \in table THEN id ELSE 0

\* 388-392: the non-blocking send into a channel of capacity 1.
TrySend(chan, approved) ==
    IF Len(chan) < 1 THEN Append(chan, approved) ELSE chan

ConfirmationLookup ==
    /\ tasks[0].pc = "hcr"
    /\ LET c == Lookup(pendingConfirms, tasks[0].conf)
       IN  SetTask(0, IF c = 0 THEN IdleTask("idle")
                      ELSE [tasks[0] EXCEPT !.pc = "hcr_send", !.i = c])
    /\ UNCHANGED <<busVars, stateVars, envVars, ctxDone, pushVars,
                   confVars, ui, logVars>>

\* The send goes straight to the task parked in the select on the channel,
\* if there is one, and releases it into the response branch; else into the
\* buffer, if that has room; else it is dropped.
ConfirmationSend ==
    /\ tasks[0].pc = "hcr_send"
    /\ LET c == tasks[0].i
           approved == tasks[0].val
           entry == [id |-> tasks[0].conf, approved |-> approved]
           parked == {j \in Jobs : tasks[j].pc = "rc_parked" /\ tasks[j].conf = c}
       IN  IF parked # {}
           THEN /\ tasks' = [t \in Tasks |->
                               IF t = 0 THEN IdleTask("idle")
                               ELSE IF t \in parked
                               THEN [tasks[t] EXCEPT !.pc = "rc_got",
                                                     !.val = approved]
                               ELSE tasks[t]]
                /\ confLog' = [confLog EXCEPT
                                 ![c].delivered = Append(@, entry),
                                 ![c].received = Append(@, approved)]
                /\ UNCHANGED respChans
           ELSE /\ respChans' = [respChans EXCEPT ![c] = TrySend(@, approved)]
                /\ confLog' = IF respChans'[c] = respChans[c] THEN confLog
                              ELSE [confLog EXCEPT
                                      ![c].delivered = Append(@, entry)]
                /\ SetTask(0, IdleTask("idle"))
    /\ UNCHANGED <<busVars, stateVars, envVars, ctxDone, pushVars,
                   pendingConfirms, ui, conv, barrier>>

\* processMessage (service.go:107-115)
StartProcessingWithUserMessage ==
    /\ tasks[0].pc = "pm_start"
    /\ isProcessing' = TRUE
    /\ lastError' = ErrNil
    /\ chatHistory' = Append(chatHistory, UserMsg)
    /\ conv' = [conv EXCEPT !.after = lastError]
    /\ SetTask(0, IdleTask("pm_reset"))
    /\ UNCHANGED <<busVars, pendingToolCalls, recursionDepth, envVars,
                   ctxDone, pushVars, confVars, ui, barrier, confLog>>

\* Variant the properties must reject: a new message that leaves the depth of the last conversation.
ProcessMessageResetKeeps ==
    /\ tasks[0].pc = "pm_reset"
    /\ conv' = [active |-> TRUE, api |-> 0, allTool |-> TRUE,
                after |-> conv.after]
    /\ SetTask(0, IdleTask("pm_push"))
    /\ UNCHANGED <<busVars, chatHistory, isProcessing, lastError,
                   pendingToolCalls, recursionDepth, envVars, ctxDone,
                   pushVars, confVars, ui, barrier, confLog>>

ProcessMessageReset ==
    /\ tasks[0].pc = "pm_reset"
    /\ recursionDepth' = 0
    /\ conv' = [active |-> TRUE, api |-> 0, allTool |-> TRUE,
                after |-> conv.after]
    /\ SetTask(0, IdleTask("pm_push"))
    /\ UNCHANGED <<busVars, chatHistory, isProcessing, lastError,
                   pendingToolCalls, envVars, ctxDone, pushVars,
                   confVars, ui, barrier, confLog>>

ProcessMessagePush ==
    /\ tasks[0].pc = "pm_push"
    /\ pushStateToUI
    /\ SetTask(0, IdleTask("cc_enter"))
    /\ UNCHANGED <<busCall, lastSend, stateVars, envVars, ctxDone, confVars,
                   ui, logVars>>

\* Variant the properties must reject: an entry that does not look at the client.
ContinueEnterAnyClient(t) ==
    /\ tasks[t].pc = "cc_enter"
    /\ SetTask(t, [tasks[t] EXCEPT !.pc =
            IF CanRecurse(recursionDepth) THEN "cc_inc" ELSE "cc_limit"])
    /\ UNCHANGED <<busVars, chatHistory, isProcessing, lastError, conv,
                   pendingToolCalls, recursionDepth, envVars, ctxDone,
                   pushVars, confVars, ui, barrier, confLog>>

\* continueConversation (service.go:118-181)
\* 120-124 and 127: the nil client, else the CanRecurse() read.
ContinueEnter(t) ==
    /\ tasks[t].pc = "cc_enter"
    /\ IF ~client
       THEN /\ isProcessing' = FALSE
            /\ lastError' = ErrNoClient
            /\ conv' = [conv EXCEPT !.active = FALSE]
            /\ SetTask(t, [tasks[t] EXCEPT !.pc = "cc_push_ret"])
       ELSE /\ SetTask(t, [tasks[t] EXCEPT !.pc =
                    IF CanRecurse(recursionDepth) THEN "cc_inc" ELSE "cc_limit"])
            /\ UNCHANGED <<isProcessing, lastError, conv>>
    /\ UNCHANGED <<busVars, chatHistory, pendingToolCalls, recursionDepth,
                   envVars, ctxDone, pushVars, confVars, ui, barrier,
                   confLog>>

\* Variant the properties must reject: an error stored while isProcessing stays set.
ContinueLimitKeepsProcessing(t) ==
    /\ tasks[t].pc = "cc_limit"
    /\ lastError' = ErrRecursion
    /\ conv' = [conv EXCEPT !.active = FALSE]
    /\ SetTask(t, [tasks[t] EXCEPT !.pc = "cc_push_ret"])
    /\ UNCHANGED <<busVars, chatHistory, isProcessing, pendingToolCalls,
                   recursionDepth, envVars, ctxDone, pushVars, confVars, ui,
                   barrier, confLog>>

\* 128: FinishProcessingWithError(recursion limit)
ContinueLimit(t) ==
    /\ tasks[t].pc = "cc_limit"
    /\ isProcessing' = FALSE
    /\ lastError' = ErrRecursion
    /\ conv' = [conv EXCEPT !.active = FALSE]
    /\ SetTask(t, [tasks[t] EXCEPT !.pc = "cc_push_ret"])
    /\ UNCHANGED <<busVars, chatHistory, pendingToolCalls, recursionDepth,
                   envVars, ctxDone, pushVars, confVars, ui, barrier,
                   confLog>>

\* 134-146: IncrementRecursion(), then the completion call is issued.
ContinueIncrement(t) ==
    /\ tasks[t].pc = "cc_inc"
    /\ recursionDepth' = IncrementRecursion(recursionDepth)
    /\ conv' = [conv EXCEPT !.api = @ + 1]
    /\ SetTask(t, [tasks[t] EXCEPT !.pc = "cc_api"])
    /\ UNCHANGED <<busVars, chatHistory, isProcessing, lastError,
                   pendingToolCalls, envVars, ctxDone, pushVars,
                   confVars, ui, barrier, confLog>>

\* A response of one well-formed call of a tool that asks no confirmation,
\* and no text: the responses a run may get any number of.
IsPoor(resp) ==
    /\ resp.content = ""
    /\ Len(resp.calls) = 1
    /\ resp.calls[1].ok
    /\ resp.calls[1].tool # "confirm"

IsRich(resp) == resp.calls # <<>> /\ ~IsPoor(resp)

ConfirmCalls(calls) ==
    Cardinality({k \in 1..Len(calls) : calls[k].tool = "confirm"})

\* 146-164: the completion call returns resp; on an error
\* FinishProcessingWithError, on a message with content or tool calls
\* AddAssistantMessageWithToolCalls, else FinishProcessing.
ApiReturn(t, resp) ==
    /\ tasks[t].pc = "cc_api"
    /\ IsRich(resp) => barrier.rich < MaxRichRounds
    /\ barrier.confirms + ConfirmCalls(resp.calls) <= MaxConfirms
    /\ conv' = [conv EXCEPT !.allTool = @ /\ resp.calls # <<>>,
                            !.active = @ /\ resp.kind = "message"
                                         /\ (resp.content # "" \/ resp.calls # <<>>)]
    /\ IF resp.kind = "error"
       THEN /\ isProcessing' = FALSE
            /\ lastError' = ErrAPI
            /\ SetTask(t, [tasks[t] EXCEPT !.pc = "cc_reset"])
            /\ UNCHANGED <<chatHistory, barrier>>
       ELSE IF resp.kind = "message" /\ (resp.content # "" \/ resp.calls # <<>>)
       THEN /\ chatHistory' = AddAssistantMessageWithToolCalls(
                                  chatHistory, resp.content, resp.calls)
            /\ barrier' = IF resp.calls = <<>> THEN barrier
                          ELSE [n |-> barrier.n + 1,
                                ids |-> [k \in 1..Len(resp.calls) |-> resp.calls[k].id],
                                at |-> Len(chatHistory'),
                                continues |-> 0,
                                rich |-> barrier.rich + (IF IsRich(resp) THEN 1 ELSE 0),
                                confirms |-> barrier.confirms + ConfirmCalls(resp.calls)]
            /\ SetTask(t, [tasks[t] EXCEPT !.pc = "cc_add_push", !.resp = resp])
            /\ UNCHANGED <<isProcessing, lastError>>
       ELSE /\ isProcessing' = FALSE
            /\ lastError' = ErrNil
            /\ SetTask(t, [tasks[t] EXCEPT !.pc = "cc_reset"])
            /\ UNCHANGED <<chatHistory, barrier>>
    /\ UNCHANGED <<busVars, pendingToolCalls, recursionDepth, envVars, ctxDone,
                   pushVars, confVars, ui, confLog>>

\* 163: the push after the assistant message; 167-173: into handleToolCalls
\* when there are tool calls, else on to FinishProcessing.
ContinueAddPush(t) ==
    /\ tasks[t].pc = "cc_add_push"
    /\ pushStateToUI
    /\ SetTask(t, IF tasks[t].resp.calls # <<>>
                  THEN [tasks[t] EXCEPT !.pc = "htc_pend",
                                        !.calls = tasks[t].resp.calls,
                                        !.i = 1, !.resp = RespNoChoice]
                  ELSE [tasks[t] EXCEPT !.pc = "cc_fin", !.resp = RespNoChoice])
    /\ UNCHANGED <<busCall, lastSend, stateVars, envVars, ctxDone, confVars,
                   ui, logVars>>

\* Variant the properties must reject: an end of the conversation that leaves isProcessing set.
ContinueFinishKeepsProcessing(t) ==
    /\ tasks[t].pc = "cc_fin"
    /\ lastError' = ErrNil
    /\ conv' = [conv EXCEPT !.active = FALSE]
    /\ SetTask(t, [tasks[t] EXCEPT !.pc = "cc_reset"])
    /\ UNCHANGED <<busVars, chatHistory, isProcessing, pendingToolCalls,
                   recursionDepth, envVars, ctxDone, pushVars, confVars, ui,
                   barrier, confLog>>

\* 171: FinishProcessing()
ContinueFinish(t) ==
    /\ tasks[t].pc = "cc_fin"
    /\ isProcessing' = FALSE
    /\ lastError' = ErrNil
    /\ conv' = [conv EXCEPT !.active = FALSE]
    /\ SetTask(t, [tasks[t] EXCEPT !.pc = "cc_reset"])
    /\ UNCHANGED <<busVars, chatHistory, pendingToolCalls, recursionDepth,
                   envVars, ctxDone, pushVars, confVars, ui, barrier,
                   confLog>>

\* Variant the properties must reject: an end of the round that leaves the depth as it is.
ContinueResetKeeps(t) ==
    /\ tasks[t].pc = "cc_reset"
    /\ SetTask(t, [tasks[t] EXCEPT !.pc = "cc_push_ret"])
    /\ UNCHANGED <<busVars, chatHistory, isProcessing, lastError,
                   pendingToolCalls, recursionDepth, envVars, ctxDone,
                   pushVars, confVars, ui, logVars>>

\* 151, 172, 178: ResetRecursion()
ContinueReset(t) ==
    /\ tasks[t].pc = "cc_reset"
    /\ recursionDepth' = 0
    /\ SetTask(t, [tasks[t] EXCEPT !.pc = "cc_push_ret"])
    /\ UNCHANGED <<busVars, chatHistory, isProcessing, lastError,
                   pendingToolCalls, envVars, ctxDone, pushVars,
                   confVars, ui, logVars>>

\* 122, 129, 152, 173, 179: the last push, and the return.
ContinuePushReturn(t) ==
    /\ tasks[t].pc = "cc_push_ret"
    /\ pushStateToUI
    /\ SetTask(t, AfterContinue(t, tasks[t]))
    /\ UNCHANGED <<busCall, lastSend, stateVars, envVars, ctxDone, confVars,
                   ui, logVars>>

\* handleToolCalls (service.go:256-292)
\* 258-260: AddPendingToolCall for every call, before any is looked at.
AddPending(t) ==
    /\ tasks[t].pc = "htc_pend"
    /\ LET tk == tasks[t]
       IN  /\ pendingToolCalls' =
                 AddPendingToolCall(pendingToolCalls, tk.calls[tk.i].id)
           /\ SetTask(t, IF tk.i < Len(tk.calls)
                         THEN [tk EXCEPT !.i = @ + 1]
                         ELSE [tk EXCEPT !.i = 1, !.pc = "htc_push"])
    /\ UNCHANGED <<busVars, chatHistory, isProcessing, lastError,
                   recursionDepth, envVars, ctxDone, pushVars, confVars,
                   ui, logVars>>

FreeJobs == {j \in Jobs : tasks[j].pc = "free"}
FirstFree == CHOOSE j \in FreeJobs : \A k \in FreeJobs : j <= k

\* 264-290: the push, json.Unmarshal of the arguments, and for arguments
\* that parse ExecuteAsync and `go handleToolResult`.
ToolCallPush(t) ==
    /\ tasks[t].pc = "htc_push"
    /\ pushStateToUI
    /\ LET tk == tasks[t]
           call == tk.calls[tk.i]
       IN  IF call.ok
           THEN /\ FreeJobs # {}
                /\ LET me == NextCall(t, tk)
                   IN  tasks' = [tasks EXCEPT
                           ![t] = me,
                           ![FirstFree] = [IdleTask("ex_run") EXCEPT !.call = call]]
           ELSE SetTask(t, [tk EXCEPT !.pc = "htc_bad_add"])
    /\ UNCHANGED <<busCall, lastSend, stateVars, envVars, ctxDone, confVars,
                   ui, logVars>>

\* 270: AddToolResultMessage(parse error)
BadArgsAdd(t) ==
    /\ tasks[t].pc = "htc_bad_add"
    /\ LET tk == tasks[t]
       IN  chatHistory' = AddToolResultMessage(chatHistory, tk.calls[tk.i].id,
                                               "Error parsing arguments")
    /\ SetTask(t, [tasks[t] EXCEPT !.pc = "htc_bad_complete"])
    /\ UNCHANGED <<busVars, isProcessing, lastError, pendingToolCalls,
                   recursionDepth, envVars, ctxDone, pushVars, confVars,
                   ui, logVars>>

\* 271: allComplete := CompletePendingToolCall(call.ID)
BadArgsComplete(t) ==
    /\ tasks[t].pc = "htc_bad_complete"
    /\ LET tk == tasks[t]
           r == CompletePendingToolCall(pendingToolCalls, tk.calls[tk.i].id)
       IN  /\ pendingToolCalls' = r.pending
           /\ SetTask(t, [tk EXCEPT !.pc = "htc_bad_push", !.val = r.allComplete])
    /\ UNCHANGED <<busVars, chatHistory, isProcessing, lastError,
                   recursionDepth, envVars, ctxDone, pushVars, confVars,
                   ui, logVars>>

\* Variant the properties must reject: a parse failure that ends the loop over the calls.
BadArgsPushEndsLoop(t) ==
    /\ tasks[t].pc = "htc_bad_push"
    /\ pushStateToUI
    /\ LET tk == tasks[t]
       IN  IF tk.val
           THEN /\ SetTask(t, [tk EXCEPT !.pc = "cc_enter", !.val = FALSE,
                                  !.calls = <<>>, !.i = 0,
                                  !.frames = <<[calls |-> tk.calls, i |-> tk.i]>> \o @])
                /\ barrier' = [barrier EXCEPT !.continues = @ + 1]
           ELSE /\ SetTask(t, AfterContinue(t, [tk EXCEPT !.val = FALSE]))
                /\ UNCHANGED barrier
    /\ UNCHANGED <<busCall, lastSend, stateVars, envVars, ctxDone, confVars,
                   ui, conv, confLog>>

\* 272-276: the push, continueAfterAllToolsComplete() if allComplete, and
\* `continue`.
BadArgsPush(t) ==
    /\ tasks[t].pc = "htc_bad_push"
    /\ pushStateToUI
    /\ LET tk == tasks[t]
       IN  IF tk.val
           THEN /\ SetTask(t, [tk EXCEPT !.pc = "cc_enter", !.val = FALSE,
                                  !.calls = <<>>, !.i = 0,
                                  !.frames = <<[calls |-> tk.calls, i |-> tk.i]>> \o @])
                /\ barrier' = [barrier EXCEPT !.continues = @ + 1]
           ELSE /\ SetTask(t, NextCall(t, [tk EXCEPT !.val = FALSE]))
                /\ UNCHANGED barrier
    /\ UNCHANGED <<busCall, lastSend, stateVars, envVars, ctxDone, confVars,
                   ui, conv, confLog>>

(***************************************************************************)
(* A dispatched tool call: the ExecuteAsync goroutine                      *)
(* (file_edit_tool.go:993-1020), the tool's Execute with its confirmation  *)
(* (builtin.go:58-74), and handleToolResult (service.go:295-319).          *)
(***************************************************************************)
UnusedConfIds == {c \in ConfIds : confLog[c].via = "none"}
FreshConfId == CHOOSE c \in UnusedConfIds : \A d \in UnusedConfIds : c <= d

\* requestUserConfirmation, service.go:337-345: a fresh id, and its channel
\* stored in the table.
ConfirmRegister(j) ==
    /\ tasks[j].pc = "ex_run"
    /\ tasks[j].call.tool = "confirm"
    /\ UnusedConfIds # {}
    /\ pendingConfirms' = pendingConfirms \cup {FreshConfId}
    /\ confLog' = [confLog EXCEPT ![FreshConfId].via = "waiting"]
    /\ SetTask(j, [tasks[j] EXCEPT !.pc = "rc_send", !.conf = FreshConfId])
    /\ UNCHANGED <<busVars, stateVars, envVars, ctxDone, pushVars,
                   respChans, ui, conv, barrier>>

\* 348-361: SendToUI(request); on an error the cleanup branch is taken.
ConfirmSend(j) ==
    /\ tasks[j].pc = "rc_send"
    /\ LET r == SendToUI(eb, [type |-> "ConfirmationRequest",
                              ID |-> tasks[j].conf])
       IN  /\ eb' = r.eb
           /\ SetTask(j, [tasks[j] EXCEPT !.pc =
                    IF r.err = ErrNil THEN "rc_wait" ELSE "rc_fail"])
    /\ UNCHANGED <<busCall, lastSend, stateVars, envVars, ctxDone,
                   pushVars, confVars, ui, logVars>>

\* 363-377: the select. With a response in the channel it can take the
\* response branch ...
ConfirmReceive(j) ==
    /\ tasks[j].pc = "rc_wait"
    /\ respChans[tasks[j].conf] # <<>>
    /\ respChans' = [respChans EXCEPT ![tasks[j].conf] = Tail(@)]
    /\ confLog' = [confLog EXCEPT ![tasks[j].conf].received =
                        Append(@, Head(respChans[tasks[j].conf]))]
    /\ SetTask(j, [tasks[j] EXCEPT !.pc = "rc_got",
                                   !.val = Head(respChans[tasks[j].conf])])
    /\ UNCHANGED <<busVars, stateVars, envVars, ctxDone, pushVars,
                   pendingConfirms, ui, conv, barrier>>

\* ... with the root context cancelled the Done branch (either when both can
\* proceed) ...
ConfirmCancelled(j) ==
    /\ tasks[j].pc = "rc_wait"
    /\ ctxDone
    /\ SetTask(j, [tasks[j] EXCEPT !.pc = "rc_cancel", !.val = FALSE])
    /\ UNCHANGED <<busVars, stateVars, envVars, ctxDone, pushVars,
                   confVars, ui, logVars>>

\* ... and with neither it parks the task until one of them can proceed.
ConfirmPark(j) ==
    /\ tasks[j].pc = "rc_wait"
    /\ respChans[tasks[j].conf] = <<>>
    /\ ~ctxDone
    /\ SetTask(j, [tasks[j] EXCEPT !.pc = "rc_parked"])
    /\ UNCHANGED <<busVars, stateVars, envVars, ctxDone, pushVars,
                   confVars, ui, logVars>>

\* Variant the properties must reject: a cleanup that leaves the id in the table.
CleanupKeeps(table, id) == table

\* 357-359, 367-369, 373-375: delete(cs.pendingConfirms, id)
Cleanup(table, id) == table \ {id}

\* The cleanup of each of the three branches, and the return of
\* requestUserConfirmation into the tool.
ConfirmReturn(j) ==
    /\ tasks[j].pc \in {"rc_fail", "rc_got", "rc_cancel"}
    /\ LET tk == tasks[j]
           approved == tk.pc = "rc_got" /\ tk.val
       IN  /\ pendingConfirms' = Cleanup(pendingConfirms, tk.conf)
           /\ confLog' = [confLog EXCEPT ![tk.conf].via = tk.pc,
                                         ![tk.conf].returned = <<approved>>]
           /\ SetTask(j, [tk EXCEPT !.pc = "ex_tool", !.val = approved])
    /\ UNCHANGED <<busVars, stateVars, envVars, ctxDone, pushVars,
                   respChans, ui, conv, barrier>>

ToolOutcomes(tk) ==
    CASE tk.call.tool = "missing" -> {"Error: tool not found"}
      [] tk.call.tool = "confirm" /\ ~tk.val -> {"aborted"}
      [] OTHER -> {"result", "Error: failed"}

\* Variant the properties must reject: a result other than success that ends the conversation with an error.
ToolResultAddFatal(j, content) ==
    /\ \/ tasks[j].pc = "ex_run" /\ tasks[j].call.tool # "confirm"
       \/ tasks[j].pc = "ex_tool"
    /\ content \in ToolOutcomes(tasks[j])
    /\ chatHistory' = AddToolResultMessage(chatHistory, tasks[j].call.id, content)
    /\ isProcessing' = (isProcessing /\ content = "result")
    /\ lastError' = IF content = "result" THEN lastError ELSE "tool error"
    /\ SetTask(j, [tasks[j] EXCEPT !.pc = "htr_push", !.val = FALSE, !.conf = 0])
    /\ UNCHANGED <<busVars, pendingToolCalls, recursionDepth, envVars,
                   ctxDone, pushVars, confVars, ui, logVars>>

\* The tool returns, ExecuteAsync writes the ToolResult, handleToolResult
\* reads it and calls AddToolResultMessage (service.go:296-311).
ToolResultAdd(j, content) ==
    /\ \/ tasks[j].pc = "ex_run" /\ tasks[j].call.tool # "confirm"
       \/ tasks[j].pc = "ex_tool"
    /\ content \in ToolOutcomes(tasks[j])
    /\ chatHistory' = AddToolResultMessage(chatHistory, tasks[j].call.id, content)
    /\ SetTask(j, [tasks[j] EXCEPT !.pc = "htr_push", !.val = FALSE, !.conf = 0])
    /\ UNCHANGED <<busVars, isProcessing, lastError, pendingToolCalls,
                   recursionDepth, envVars, ctxDone, pushVars, confVars,
                   ui, logVars>>

\* 312: the push
ToolResultPush(j) ==
    /\ tasks[j].pc = "htr_push"
    /\ pushStateToUI
    /\ SetTask(j, [tasks[j] EXCEPT !.pc = "htr_complete"])
    /\ UNCHANGED <<busCall, lastSend, stateVars, envVars, ctxDone, confVars,
                   ui, logVars>>

\* 315-318: CompletePendingToolCall, and continueAfterAllToolsComplete()
\* by the task that found the set empty.
\* Variant the properties must reject: a tool-result task that never continues the conversation.
ToolResultCompleteNoContinue(j) ==
    /\ tasks[j].pc = "htr_complete"
    /\ pendingToolCalls' =
          CompletePendingToolCall(pendingToolCalls, tasks[j].call.id).pending
    /\ SetTask(j, IdleTask("free"))
    /\ UNCHANGED <<busVars, chatHistory, isProcessing, lastError,
                   recursionDepth, envVars, ctxDone, pushVars, confVars,
                   ui, conv, confLog, barrier>>

ToolResultComplete(j) ==
    /\ tasks[j].pc = "htr_complete"
    /\ LET r == CompletePendingToolCall(pendingToolCalls, tasks[j].call.id)
       IN  /\ pendingToolCalls' = r.pending
           /\ IF r.allComplete
              THEN /\ SetTask(j, IdleTask("cc_enter"))
                   /\ barrier' = [barrier EXCEPT !.continues = @ + 1]
              ELSE /\ SetTask(j, IdleTask("free"))
                   /\ UNCHANGED barrier
    /\ UNCHANGED <<busVars, chatHistory, isProcessing, lastError,
                   recursionDepth, envVars, ctxDone, pushVars, confVars,
                   ui, conv, confLog>>

(***************************************************************************)
(* The same, step by step: the goroutine of Registry.ExecuteAsync          *)
(* (file_edit_tool.go:993-1020) with its result channel, and the receive   *)
(* of handleToolResult (service.go:296-311). The result channel is known   *)
(* to these two goroutines only, so ToolResultAdd above is their steps     *)
(* taken together.                                                         *)
(***************************************************************************)
\* Registry.GetTool (file_edit_tool.go:950-955): whether the name is
\* registered; the registry holds every tool but the one named "missing".
GetTool(name) == name # "missing"

\* Variant the properties must reject: an unknown tool that ends the goroutine with no result written.
LookupBranchSilent(exists) == IF exists THEN "run" ELSE "close"

\* 997-1005: on to Execute for a registered tool, else to the send of the
\* not-found result.
LookupBranch(exists) == IF exists THEN "run" ELSE "write"

NotFoundResult(call) ==
    [CallID |-> call.id, Result |-> "null", Error |-> "tool not found"]

\* 1007-1016: the ToolResult made of what Execute returned.
ExecutedResult(call, failed) ==
    [CallID |-> call.id,
     Result |-> IF failed THEN "null" ELSE "result",
     Error |-> IF failed THEN "failed" ELSE ""]

\* 994-1005: the goroutine starts and looks the tool up. (A job whose last
\* goroutine has not yet closed its channel starts the next one after.)
ExecuteAsyncLookup(j) ==
    /\ tasks[j].pc = "ex_run"
    /\ \/ executions[j].pc = "none"
       \/ executions[j].pc = "done" /\ executions[j].handled
    /\ LET call == tasks[j].call
       IN  executions' = [executions EXCEPT ![j] =
               [NoExecution EXCEPT
                  !.call = call,
                  !.pc = LookupBranch(GetTool(call.tool)),
                  !.toolResult = IF GetTool(call.tool) THEN ZeroResult
                                 ELSE NotFoundResult(call)]]
    /\ UNCHANGED <<busVars, stateVars, client, sendCalls, ctxDone, pushVars,
                   confVars, tasks, ui, logVars>>

\* 1007-1016: tool.Execute returns a result, or an error.
ExecuteAsyncRun(j, failed) ==
    /\ executions[j].pc = "run"
    /\ executions' = [executions EXCEPT
                        ![j].pc = "write",
                        ![j].executed = TRUE,
                        ![j].toolResult = ExecutedResult(executions[j].call, failed)]
    /\ UNCHANGED <<busVars, stateVars, client, sendCalls, ctxDone, pushVars,
                   confVars, tasks, ui, logVars>>

\* 999, 1018: resultChan <- toolResult, which waits while the channel is
\* full.
ExecuteAsyncWrite(j) ==
    /\ executions[j].pc = "write"
    /\ Len(executions[j].resultChan) < 1
    /\ executions' = [executions EXCEPT
                        ![j].pc = "close",
                        ![j].resultChan = Append(@, executions[j].toolResult),
                        ![j].written = Append(@, executions[j].toolResult)]
    /\ UNCHANGED <<busVars, stateVars, client, sendCalls, ctxDone, pushVars,
                   confVars, tasks, ui, logVars>>

\* 995: the deferred close(resultChan), as the goroutine returns.
ExecuteAsyncClose(j) ==
    /\ executions[j].pc = "close"
    /\ executions' = [executions EXCEPT ![j].pc = "done", ![j].closed = TRUE]
    /\ UNCHANGED <<busVars, stateVars, client, sendCalls, ctxDone, pushVars,
                   confVars, tasks, ui, logVars>>

\* service.go:298-308: resultContent
ResultContent(result) ==
    CASE result.Error = "tool not found" -> "Error: tool not found"
      [] result.Error = "failed" -> "Error: failed"
      [] OTHER -> result.Result

\* service.go:296-311: result := <-resultChan, which takes the result
\* written, or the zero value from a channel closed empty; then
\* AddToolResultMessage(result.CallID, ...).
ToolResultReceive(j) ==
    /\ tasks[j].pc = "ex_run"
    /\ executions[j].pc # "none"
    /\ ~executions[j].handled
    /\ executions[j].resultChan # <<>> \/ executions[j].closed
    /\ LET chan == executions[j].resultChan
           result == IF chan # <<>> THEN Head(chan) ELSE ZeroResult
       IN  /\ chatHistory' = AddToolResultMessage(chatHistory, result.CallID,
                                                  ResultContent(result))
           /\ executions' = [executions EXCEPT
                               ![j].resultChan = IF chan # <<>> THEN Tail(chan)
                                                 ELSE chan,
                               ![j].handled = TRUE]
    /\ SetTask(j, [tasks[j] EXCEPT !.pc = "htr_push", !.val = FALSE, !.conf = 0])
    /\ UNCHANGED <<busVars, isProcessing, lastError, pendingToolCalls,
                   recursionDepth, client, sendCalls, ctxDone, pushVars,
                   confVars, ui, logVars>>

(***************************************************************************)
(* The terminal side (app model: listenForCoreEvents, inputLoop,           *)
(* handleConfirmationRequest, handleConfirmationInput).                    *)
(***************************************************************************)
\* The listener takes the next event off CoreToUI; a confirmation request
\* becomes the pending confirmation, the messages of a state update are
\* appended to the local list and its flag becomes Loading.
UIListen ==
    /\ ~ui.stalled
    /\ eb.coreToUI # <<>>
    /\ eb' = [eb EXCEPT !.coreToUI = Tail(@)]
    /\ ui' = IF Head(eb.coreToUI).type = "ConfirmationRequest"
             THEN [ui EXCEPT !.PendingConfirmation = Head(eb.coreToUI).ID]
             ELSE [ui EXCEPT !.Messages = @ \o Head(eb.coreToUI).Messages,
                             !.Loading = Head(eb.coreToUI).IsProcessing]
    /\ UNCHANGED <<busCall, lastSend, stateVars, envVars, ctxDone,
                   pushVars, confVars, tasks, logVars>>

\* Nothing of a conversation is in progress.
Quiescent ==
    /\ ~isProcessing
    /\ tasks[0].pc \in {"idle", "parked"}
    /\ \A j \in Jobs : tasks[j].pc = "free"
    /\ eb.uiToCore = <<>>

\* inputLoop: a line typed with no confirmation pending is sent as a
\* SendMessage event. waits: the user types only once the last
\* conversation has ended; max: the messages the user types in a run.
UserSend(waits, max) ==
    /\ ui.PendingConfirmation = 0
    /\ ui.sent < max
    /\ tasks[0].pc # "new"
    /\ waits => Quiescent
    /\ LET r == SendToCore(eb, [type |-> "SendMessage", Message |-> "u"])
       IN  eb' = r.eb /\ tasks' = ReleasedBySend(r)
    /\ ui' = [ui EXCEPT !.sent = @ + 1]
    /\ UNCHANGED <<busCall, lastSend, stateVars, envVars, ctxDone,
                   pushVars, confVars, logVars>>

\* The listener stops taking events (it prints each event to the terminal
\* before it takes the next).
UIStall ==
    /\ ~ui.stalled
    /\ tasks[0].pc # "new"
    /\ ui' = [ui EXCEPT !.stalled = TRUE]
    /\ UNCHANGED <<busVars, stateVars, envVars, ctxDone, pushVars,
                   confVars, tasks, logVars>>

\* handleConfirmationInput: the answer to the pending confirmation.
UserAnswer(approved) ==
    /\ ui.PendingConfirmation # 0
    /\ LET r == SendToCore(eb, [type |-> "ConfirmationResponse",
                             ID |-> ui.PendingConfirmation,
                             Approved |-> approved])
       IN  eb' = r.eb /\ tasks' = ReleasedBySend(r)
    /\ ui' = [ui EXCEPT !.PendingConfirmation = 0]
    /\ UNCHANGED <<busCall, lastSend, stateVars, envVars, ctxDone,
                   pushVars, confVars, logVars>>

\* Any other ConfirmationResponse put on the bus: a repeated one, or one
\* whose id no request carries.
OtherResponse(id, approved) ==
    /\ ui.others < MaxOthers
    /\ tasks[0].pc # "new"
    /\ LET r == SendToCore(eb, [type |-> "ConfirmationResponse", ID |-> id,
                             Approved |-> approved])
       IN  eb' = r.eb /\ tasks' = ReleasedBySend(r)
    /\ ui' = [ui EXCEPT !.others = @ + 1]
    /\ UNCHANGED <<busCall, lastSend, stateVars, envVars, ctxDone,
                   pushVars, confVars, logVars>>


(***************************************************************************)
(* pushStateToUI statement by statement (service.go:183-202), for the      *)
(* pushes of handleToolResult and of the bad-arguments branch of           *)
(* handleToolCalls.  lastSentCount is a plain field of ChatService, read   *)
(* and written without a lock.                                             *)
(***************************************************************************)
PushSites == {"htr_push", "htc_bad_push"}

SetPush(t, rec) == pushCalls' = [pushCalls EXCEPT ![t] = rec]

\* allMessages := cs.state.GetMessages()
PushGetMessages(t) ==
    /\ tasks[t].pc \in PushSites
    /\ pushCalls[t].pc = "none"
    /\ SetPush(t, [NoPushCall EXCEPT !.pc = "proc", !.n = Len(GetMessages)])
    /\ UNCHANGED <<busVars, stateVars, envVars, ctxDone, lastSentCount,
                   pushLog, confVars, tasks, ui, logVars>>

\* isProcessing := cs.state.IsProcessing()
PushIsProcessing(t) ==
    /\ pushCalls[t].pc = "proc"
    /\ SetPush(t, [pushCalls[t] EXCEPT !.pc = "err", !.proc = isProcessing])
    /\ UNCHANGED <<busVars, stateVars, envVars, ctxDone, lastSentCount,
                   pushLog, confVars, tasks, ui, logVars>>

\* lastError := cs.state.GetLastError()
PushGetLastError(t) ==
    /\ pushCalls[t].pc = "err"
    /\ SetPush(t, [pushCalls[t] EXCEPT !.pc = "slice", !.err = lastError])
    /\ UNCHANGED <<busVars, stateVars, envVars, ctxDone, lastSentCount,
                   pushLog, confVars, tasks, ui, logVars>>

\* newMessages := allMessages[cs.lastSentCount:], which panics (slice bounds
\* out of range) when lastSentCount is beyond the length of allMessages.
PushSlice(t) ==
    /\ pushCalls[t].pc = "slice"
    /\ SetPush(t, IF lastSentCount > pushCalls[t].n
                  THEN [pushCalls[t] EXCEPT !.pc = "panic"]
                  ELSE [pushCalls[t] EXCEPT
                           !.pc = "store",
                           !.new = SubSeq(GetMessages, lastSentCount + 1,
                                          pushCalls[t].n)])
    /\ UNCHANGED <<busVars, stateVars, envVars, ctxDone, lastSentCount,
                   pushLog, confVars, tasks, ui, logVars>>

\* cs.lastSentCount = len(allMessages)
PushStore(t) ==
    /\ pushCalls[t].pc = "store"
    /\ lastSentCount' = pushCalls[t].n
    /\ SetPush(t, [pushCalls[t] EXCEPT !.pc = "send"])
    /\ UNCHANGED <<busVars, stateVars, envVars, ctxDone, pushLog, confVars,
                   tasks, ui, logVars>>

\* The StateUpdate the goroutine has built from its locals.
PushEvent(t) ==
    [type |-> "StateUpdate", Messages |-> pushCalls[t].new,
     IsProcessing |-> pushCalls[t].proc, Error |-> pushCalls[t].err]

\* cs.eventBus.SendToUI(...), whose error is logged; pushStateToUI returns.
PushSendToUI(t) ==
    /\ pushCalls[t].pc = "send"
    /\ eb' = SendToUI(eb, PushEvent(t)).eb
    /\ pushLog' = [emitted |-> pushLog.emitted \o pushCalls[t].new,
                   last |-> PushEvent(t),
                   dropped |-> pushLog.dropped +
                      (IF SendToUI(eb, PushEvent(t)).err = ErrNil
                       THEN 0 ELSE 1)]
    /\ SetPush(t, NoPushCall)
    /\ UNCHANGED lastSentCount

\* handleToolResult (service.go:295-319) after its push.
PushSendResult(j) ==
    /\ tasks[j].pc = "htr_push"
    /\ PushSendToUI(j)
    /\ SetTask(j, [tasks[j] EXCEPT !.pc = "htr_complete"])
    /\ UNCHANGED <<busCall, lastSend, stateVars, envVars, ctxDone, confVars,
                   ui, logVars>>

\* handleToolCalls (service.go:256-293), bad arguments, after its push.
PushSendBadArgs(t) ==
    /\ tasks[t].pc = "htc_bad_push"
    /\ PushSendToUI(t)
    /\ LET tk == tasks[t]
       IN  IF tk.val
           THEN /\ SetTask(t, [tk EXCEPT !.pc = "cc_enter", !.val = FALSE,
                                  !.calls = <<>>, !.i = 0,
                                  !.frames = <<[calls |-> tk.calls, i |-> tk.i]>> \o @])
                /\ barrier' = [barrier EXCEPT !.continues = @ + 1]
           ELSE /\ SetTask(t, NextCall(t, [tk EXCEPT !.val = FALSE]))
                /\ UNCHANGED barrier
    /\ UNCHANGED <<busCall, lastSend, stateVars, envVars, ctxDone, confVars,
                   ui, conv, confLog>>

(***************************************************************************)
(* Specifications.                                                         *)
(***************************************************************************)
ToolContents ==
    {"result", "Error: failed", "aborted", "Error: tool not found"}

\* The tool-call lists of 1..MaxCalls calls with ids 1, 2, ... in order.
CallLists(tools, oks) ==
    UNION {{calls \in [1..n -> [id : 1..n, ok : oks, tool : tools]] :
               \A k \in 1..n : calls[k].id = k} : n \in 1..MaxCalls}

EndResponses ==
    {RespError, RespNoChoice, RespMessage("a", <<>>), RespMessage("", <<>>)}

\* Responses of the orchestrator's specification: arguments that parse or
\* do not, tools that run without confirmation.
Responses ==
    EndResponses
    \cup {RespMessage("", calls) : calls \in CallLists({"plain"}, BOOLEAN)}
    \cup {RespMessage("a", <<ToolCall(1, TRUE, "plain")>>)}

\* CoreToUI has been emptied by the listener.
Prompt == eb.coreToUI = <<>>

Init ==
    /\ eb = NewEventBus
    /\ busCall = NoCall
    /\ lastSend = NoSend
    /\ InitCore

\* The orchestrator with a terminal that keeps up: the core takes a step
\* only when the listener has emptied CoreToUI, and the user types the next
\* message only when the last conversation has ended.
Next ==
    \/ Prompt /\ Start
    \/ Prompt /\ Stop
    \/ Prompt /\ EventLoopDone
    \/ Prompt /\ EventLoopReceive
    \/ Prompt /\ EventLoopPark
    \/ Prompt /\ StartProcessingWithUserMessage
    \/ Prompt /\ ProcessMessageReset
    \/ Prompt /\ ProcessMessagePush
    \/ \E t \in Tasks :
         \/ Prompt /\ ContinueEnter(t)
         \/ Prompt /\ ContinueLimit(t)
         \/ Prompt /\ ContinueIncrement(t)
         \/ \E resp \in Responses : Prompt /\ ApiReturn(t, resp)
         \/ Prompt /\ ContinueAddPush(t)
         \/ Prompt /\ ContinueFinish(t)
         \/ Prompt /\ ContinueReset(t)
         \/ Prompt /\ ContinuePushReturn(t)
         \/ Prompt /\ AddPending(t)
         \/ Prompt /\ ToolCallPush(t)
         \/ Prompt /\ BadArgsAdd(t)
         \/ Prompt /\ BadArgsComplete(t)
         \/ Prompt /\ BadArgsPush(t)
    \/ \E j \in Jobs :
         \/ \E content \in ToolContents : Prompt /\ ToolResultAdd(j, content)
         \/ Prompt /\ ToolResultPush(j)
         \/ Prompt /\ ToolResultComplete(j)
    \/ UIListen
    \/ UserSend(TRUE, MaxUserMsgs)

Spec == Init /\ [][Next]_vars

\* Responses of the specification of overlapping conversations: every one
\* carries one call of a tool the registry does not have.
\* Its id is the number of the round, so no two calls of a run share an id.
OverlapResponses ==
    {RespMessage("", <<ToolCall(barrier.n + 1, TRUE, "missing")>>)}

\* No task other than t is in the middle of a round: each is idle, or about
\* to ask for a completion, or waiting for one.
OthersAtRest(t) ==
    \A u \in Tasks \ {t} :
        tasks[u].pc \in {"idle", "parked", "woken", "free", "cc_enter", "cc_inc",
                        "cc_api"}

\* The same terminal, with a user who types the next message while the
\* first round of the last conversation is still in progress (inputLoop does
\* not look at IsProcessing), and a completion API that answers a request
\* only when no other task is in the middle of a round.
NextOverlap ==
    \/ Prompt /\ Start
    \/ Prompt /\ EventLoopReceive
    \/ Prompt /\ EventLoopPark
    \/ Prompt /\ StartProcessingWithUserMessage
    \/ Prompt /\ ProcessMessageReset
    \/ Prompt /\ ProcessMessagePush
    \/ \E t \in Tasks :
         \/ Prompt /\ ContinueEnter(t)
         \/ Prompt /\ ContinueLimit(t)
         \/ Prompt /\ ContinueIncrement(t)
         \/ \E resp \in OverlapResponses :
              Prompt /\ OthersAtRest(t) /\ ApiReturn(t, resp)
         \/ Prompt /\ ContinueAddPush(t)
         \/ Prompt /\ ContinuePushReturn(t)
         \/ Prompt /\ AddPending(t)
         \/ Prompt /\ ToolCallPush(t)
    \/ \E j \in Jobs :
         \/ \E content \in ToolContents : Prompt /\ ToolResultAdd(j, content)
         \/ Prompt /\ ToolResultPush(j)
         \/ Prompt /\ ToolResultComplete(j)
    \/ UIListen
    \/ conv.api <= 1 /\ UserSend(FALSE, MaxOverlapMsgs)

SpecOverlap == Init /\ [][NextOverlap]_vars

\* Responses of the specification of confirmations: calls of a tool that
\* asks the user before it runs.
ConfirmResponses ==
    {RespMessage("a", <<>>)}
    \cup {RespMessage("", calls) : calls \in CallLists({"confirm"}, {TRUE})}

\* The orchestrator with a user who answers confirmations and a terminal
\* that keeps up; in a run either its listener stalls while a message is
\* being processed, after which sends to the UI come to be rejected, or
\* other (approving) confirmation responses are put on the bus while a
\* confirmation is pending.
Ready == Prompt \/ ui.stalled

NextConfirm ==
    \/ Ready /\ Start
    \/ Ready /\ Stop
    \/ Ready /\ EventLoopDone
    \/ Ready /\ EventLoopReceive
    \/ Ready /\ EventLoopPark
    \/ Ready /\ ConfirmationLookup
    \/ Ready /\ ConfirmationSend
    \/ Ready /\ StartProcessingWithUserMessage
    \/ Ready /\ ProcessMessageReset
    \/ Ready /\ ProcessMessagePush
    \/ \E t \in Tasks :
         \/ Ready /\ ContinueEnter(t)
         \/ Ready /\ ContinueIncrement(t)
         \/ \E resp \in ConfirmResponses : Ready /\ ApiReturn(t, resp)
         \/ Ready /\ ContinueAddPush(t)
         \/ Ready /\ ContinueFinish(t)
         \/ Ready /\ ContinueReset(t)
         \/ Ready /\ ContinuePushReturn(t)
         \/ Ready /\ AddPending(t)
         \/ Ready /\ ToolCallPush(t)
    \/ \E j \in Jobs :
         \/ Ready /\ ConfirmRegister(j)
         \/ Ready /\ ConfirmSend(j)
         \/ Ready /\ ConfirmReceive(j)
         \/ Ready /\ ConfirmCancelled(j)
         \/ Ready /\ ConfirmPark(j)
         \/ Ready /\ ConfirmReturn(j)
         \/ \E content \in {"result", "aborted"} :
              Ready /\ ToolResultAdd(j, content)
         \/ Ready /\ ToolResultPush(j)
         \/ Ready /\ ToolResultComplete(j)
    \/ UIListen
    \/ isProcessing /\ ui.others = 0 /\ UIStall
    \/ UserSend(TRUE, MaxUserMsgs)
    \/ \E approved \in BOOLEAN : UserAnswer(approved)
    \/ \E id \in ConfIds \cup {UnknownId} :
         pendingConfirms # {} /\ ~ui.stalled /\ OtherResponse(id, TRUE)

SpecConfirm == Init /\ [][NextConfirm]_vars

\* Responses of the specification of tool executions: calls of a tool that
\* runs and of a tool the registry does not have.
ToolsResponses ==
    {RespMessage("a", <<>>)}
    \cup {RespMessage("", calls) :
             calls \in CallLists({"plain", "missing"}, {TRUE})}

\* The orchestrator with the goroutines of ExecuteAsync taken step by step,
\* a terminal that keeps up, and a completion API that asks for tools in at
\* most MaxToolRounds rounds.
NextTools ==
    \/ Prompt /\ Start
    \/ Prompt /\ EventLoopReceive
    \/ Prompt /\ EventLoopPark
    \/ Prompt /\ StartProcessingWithUserMessage
    \/ Prompt /\ ProcessMessageReset
    \/ Prompt /\ ProcessMessagePush
    \/ \E t \in Tasks :
         \/ Prompt /\ ContinueEnter(t)
         \/ Prompt /\ ContinueIncrement(t)
         \/ \E resp \in ToolsResponses :
              /\ resp.calls # <<>> => barrier.n < MaxToolRounds
              /\ Prompt /\ ApiReturn(t, resp)
         \/ Prompt /\ ContinueAddPush(t)
         \/ Prompt /\ ContinueFinish(t)
         \/ Prompt /\ ContinueReset(t)
         \/ Prompt /\ ContinuePushReturn(t)
         \/ Prompt /\ AddPending(t)
         \/ Prompt /\ ToolCallPush(t)
    \/ \E j \in Jobs :
         \/ Prompt /\ ExecuteAsyncLookup(j)
         \/ \E failed \in BOOLEAN : Prompt /\ ExecuteAsyncRun(j, failed)
         \/ Prompt /\ ExecuteAsyncWrite(j)
         \/ Prompt /\ ExecuteAsyncClose(j)
         \/ Prompt /\ ToolResultReceive(j)
         \/ Prompt /\ ToolResultPush(j)
         \/ Prompt /\ ToolResultComplete(j)
    \/ UIListen
    \/ UserSend(TRUE, MaxUserMsgs)

SpecTools == Init /\ [][NextTools]_vars

\* Responses of the specification of rounds ended by an error: an error,
\* or one call of a tool that runs.
RetryResponses == {RespError, RespMessage("", <<ToolCall(1, TRUE, "plain")>>)}

\* The orchestrator with a terminal that keeps up, a completion API that
\* fails or asks for one more tool call, and a user who types the next
\* message when the last conversation has ended.
NextRetry ==
    \/ Prompt /\ Start
    \/ Prompt /\ EventLoopReceive
    \/ Prompt /\ EventLoopPark
    \/ Prompt /\ StartProcessingWithUserMessage
    \/ Prompt /\ ProcessMessageReset
    \/ Prompt /\ ProcessMessagePush
    \/ \E t \in Tasks :
         \/ Prompt /\ ContinueEnter(t)
         \/ Prompt /\ ContinueLimit(t)
         \/ Prompt /\ ContinueIncrement(t)
         \/ \E resp \in RetryResponses : Prompt /\ ApiReturn(t, resp)
         \/ Prompt /\ ContinueAddPush(t)
         \/ Prompt /\ ContinueReset(t)
         \/ Prompt /\ ContinuePushReturn(t)
         \/ Prompt /\ AddPending(t)
         \/ Prompt /\ ToolCallPush(t)
    \/ \E j \in Jobs :
         \/ \E content \in ToolContents : Prompt /\ ToolResultAdd(j, content)
         \/ Prompt /\ ToolResultPush(j)
         \/ Prompt /\ ToolResultComplete(j)
    \/ UIListen
    \/ UserSend(TRUE, MaxRetryMsgs)

SpecRetry == Init /\ [][NextRetry]_vars

\* Responses of the specification of tool failures: calls of a tool that
\* runs, of a tool the registry does not have and of a tool that asks the
\* user before it runs.
RecoverResponses ==
    {RespMessage("a", <<>>)}
    \cup {RespMessage("", calls) :
             calls \in CallLists({"plain", "missing", "confirm"}, {TRUE})}

\* The orchestrator with tools that fail, are not registered or are denied
\* by the user, a terminal that keeps up, and a completion API that asks
\* for tools in at most MaxToolRounds rounds.
NextRecover ==
    \/ Prompt /\ Start
    \/ Prompt /\ EventLoopReceive
    \/ Prompt /\ EventLoopPark
    \/ Prompt /\ ConfirmationLookup
    \/ Prompt /\ ConfirmationSend
    \/ Prompt /\ StartProcessingWithUserMessage
    \/ Prompt /\ ProcessMessageReset
    \/ Prompt /\ ProcessMessagePush
    \/ \E t \in Tasks :
         \/ Prompt /\ ContinueEnter(t)
         \/ Prompt /\ ContinueIncrement(t)
         \/ \E resp \in RecoverResponses :
              /\ resp.calls # <<>> => barrier.n < MaxToolRounds
              /\ Prompt /\ ApiReturn(t, resp)
         \/ Prompt /\ ContinueAddPush(t)
         \/ Prompt /\ ContinueFinish(t)
         \/ Prompt /\ ContinueReset(t)
         \/ Prompt /\ ContinuePushReturn(t)
         \/ Prompt /\ AddPending(t)
         \/ Prompt /\ ToolCallPush(t)
    \/ \E j \in Jobs :
         \/ Prompt /\ ConfirmRegister(j)
         \/ Prompt /\ ConfirmSend(j)
         \/ Prompt /\ ConfirmReceive(j)
         \/ Prompt /\ ConfirmPark(j)
         \/ Prompt /\ ConfirmReturn(j)
         \/ \E content \in ToolContents : Prompt /\ ToolResultAdd(j, content)
         \/ Prompt /\ ToolResultPush(j)
         \/ Prompt /\ ToolResultComplete(j)
    \/ UIListen
    \/ UserSend(TRUE, MaxUserMsgs)
    \/ \E approved \in BOOLEAN : UserAnswer(approved)

SpecRecover == Init /\ [][NextRecover]_vars

\* Responses of the specification of dropped updates: text, or calls of a
\* tool that runs, with arguments that parse or do not.
StallResponses ==
    {RespMessage("a", <<>>)}
    \cup {RespMessage("", calls) : calls \in CallLists({"plain"}, BOOLEAN)}

\* The orchestrator with a terminal whose listener may stop taking events
\* while a message is being processed, after which CoreToUI fills up and
\* the sends to the UI come to be rejected; the completion API asks for
\* tools in at most MaxToolRounds rounds.
NextStall ==
    \/ Ready /\ Start
    \/ Ready /\ EventLoopReceive
    \/ Ready /\ EventLoopPark
    \/ Ready /\ StartProcessingWithUserMessage
    \/ Ready /\ ProcessMessageReset
    \/ Ready /\ ProcessMessagePush
    \/ \E t \in Tasks :
         \/ Ready /\ ContinueEnter(t)
         \/ Ready /\ ContinueIncrement(t)
         \/ \E resp \in StallResponses :
              /\ resp.calls # <<>> => barrier.n < MaxToolRounds
              /\ Ready /\ ApiReturn(t, resp)
         \/ Ready /\ ContinueAddPush(t)
         \/ Ready /\ ContinueFinish(t)
         \/ Ready /\ ContinueReset(t)
         \/ Ready /\ ContinuePushReturn(t)
         \/ Ready /\ AddPending(t)
         \/ Ready /\ ToolCallPush(t)
         \/ Ready /\ BadArgsAdd(t)
         \/ Ready /\ BadArgsComplete(t)
         \/ Ready /\ BadArgsPush(t)
    \/ \E j \in Jobs :
         \/ \E content \in ToolContents : Ready /\ ToolResultAdd(j, content)
         \/ Ready /\ ToolResultPush(j)
         \/ Ready /\ ToolResultComplete(j)
    \/ UIListen
    \/ isProcessing /\ UIStall
    \/ UserSend(TRUE, MaxUserMsgs)

SpecStall == Init /\ [][NextStall]_vars

\* The steps of the goroutines of the program (event loop, tool tasks,
\* the terminal's listener) with a user who answers confirmations and a
\* terminal that keeps up.
AnswerSteps ==
    \/ Prompt /\ Start
    \/ Prompt /\ EventLoopReceive
    \/ Prompt /\ EventLoopPark
    \/ Prompt /\ ConfirmationLookup
    \/ Prompt /\ ConfirmationSend
    \/ Prompt /\ StartProcessingWithUserMessage
    \/ Prompt /\ ProcessMessageReset
    \/ Prompt /\ ProcessMessagePush
    \/ \E t \in Tasks :
         \/ Prompt /\ ContinueEnter(t)
         \/ Prompt /\ ContinueIncrement(t)
         \/ \E resp \in ConfirmResponses : Prompt /\ ApiReturn(t, resp)
         \/ Prompt /\ ContinueAddPush(t)
         \/ Prompt /\ ContinueFinish(t)
         \/ Prompt /\ ContinueReset(t)
         \/ Prompt /\ ContinuePushReturn(t)
         \/ Prompt /\ AddPending(t)
         \/ Prompt /\ ToolCallPush(t)
    \/ \E j \in Jobs :
         \/ Prompt /\ ConfirmRegister(j)
         \/ Prompt /\ ConfirmSend(j)
         \/ Prompt /\ ConfirmReceive(j)
         \/ Prompt /\ ConfirmPark(j)
         \/ Prompt /\ ConfirmReturn(j)
         \/ \E content \in {"result", "aborted"} :
              Prompt /\ ToolResultAdd(j, content)
         \/ Prompt /\ ToolResultPush(j)
         \/ Prompt /\ ToolResultComplete(j)
    \/ UIListen

NextAnswer ==
    \/ AnswerSteps
    \/ UserSend(TRUE, MaxUserMsgs)
    \/ \E approved \in BOOLEAN : UserAnswer(approved)

\* Fairness: a goroutine that can take a step is scheduled (the Go
\* scheduler starves no runnable goroutine), a completion call returns and
\* a tool returns; the user is not required to do anything.
SpecAnswer == Init /\ [][NextAnswer]_vars /\ WF_vars(AnswerSteps)

\* ... and a user who answers the confirmation prompt on the terminal
\* whenever there is one (handleConfirmationInput, with y or with anything
\* else).
SpecPrompted ==
    /\ SpecAnswer
    /\ WF_vars(\E approved \in BOOLEAN : UserAnswer(approved))

\* Responses of the specification of termination: every way a round ends
\* (error, no choice, text), and rounds of one tool call, which runs with
\* or without a confirmation or has arguments that do not parse.
LiveResponses ==
    {RespError, RespNoChoice, RespMessage("a", <<>>)}
    \cup {RespMessage("", <<ToolCall(1, ok, tool)>>) :
              ok \in BOOLEAN, tool \in {"plain", "confirm"}}

\* The steps of the goroutines of the program: the event loop, the tool
\* tasks and the terminal's listener.
LiveSteps ==
    \/ Prompt /\ Start
    \/ Prompt /\ EventLoopDone
    \/ Prompt /\ EventLoopReceive
    \/ Prompt /\ EventLoopPark
    \/ Prompt /\ ConfirmationLookup
    \/ Prompt /\ ConfirmationSend
    \/ Prompt /\ StartProcessingWithUserMessage
    \/ Prompt /\ ProcessMessageReset
    \/ Prompt /\ ProcessMessagePush
    \/ \E t \in Tasks :
         \/ Prompt /\ ContinueEnter(t)
         \/ Prompt /\ ContinueLimit(t)
         \/ Prompt /\ ContinueIncrement(t)
         \/ \E resp \in LiveResponses : Prompt /\ ApiReturn(t, resp)
         \/ Prompt /\ ContinueAddPush(t)
         \/ Prompt /\ ContinueFinish(t)
         \/ Prompt /\ ContinueReset(t)
         \/ Prompt /\ ContinuePushReturn(t)
         \/ Prompt /\ AddPending(t)
         \/ Prompt /\ ToolCallPush(t)
         \/ Prompt /\ BadArgsAdd(t)
         \/ Prompt /\ BadArgsComplete(t)
         \/ Prompt /\ BadArgsPush(t)
    \/ \E j \in Jobs :
         \/ Prompt /\ ConfirmRegister(j)
         \/ Prompt /\ ConfirmSend(j)
         \/ Prompt /\ ConfirmReceive(j)
         \/ Prompt /\ ConfirmCancelled(j)
         \/ Prompt /\ ConfirmPark(j)
         \/ Prompt /\ ConfirmReturn(j)
         \/ \E content \in {"result", "Error: failed", "aborted"} :
              Prompt /\ ToolResultAdd(j, content)
         \/ Prompt /\ ToolResultPush(j)
         \/ Prompt /\ ToolResultComplete(j)
    \/ UIListen

\* ... with a user who may answer a confirmation, type a message while one
\* is being processed, or stop the service.
NextLive ==
    \/ LiveSteps
    \/ Stop
    \/ UserSend(FALSE, MaxUserMsgs)
    \/ \E approved \in BOOLEAN : UserAnswer(approved)

\* Fairness: a goroutine that can take a step is scheduled, a completion
\* call returns and a tool returns; nothing is required of the user.
SpecLive == Init /\ [][NextLive]_vars /\ WF_vars(LiveSteps)

\* Responses of the specification of a busy orchestrator: a text, or one
\* call of a tool that runs.
BusyResponses ==
    {RespMessage("a", <<>>), RespMessage("", <<ToolCall(1, TRUE, "plain")>>)}

\* The orchestrator with a terminal that keeps up and a user who types the
\* next message whenever they like, also while tool calls are running
\* (inputLoop does not look at IsProcessing).
NextBusy ==
    \/ Prompt /\ Start
    \/ Prompt /\ EventLoopReceive
    \/ Prompt /\ EventLoopPark
    \/ Prompt /\ StartProcessingWithUserMessage
    \/ Prompt /\ ProcessMessageReset
    \/ Prompt /\ ProcessMessagePush
    \/ \E t \in Tasks :
         \/ Prompt /\ ContinueEnter(t)
         \/ Prompt /\ ContinueIncrement(t)
         \/ \E resp \in BusyResponses :
              /\ Prompt
              /\ resp.calls # <<>> => barrier.n < MaxToolRounds
              /\ ApiReturn(t, resp)
         \/ Prompt /\ ContinueAddPush(t)
         \/ Prompt /\ ContinueFinish(t)
         \/ Prompt /\ ContinueReset(t)
         \/ Prompt /\ ContinuePushReturn(t)
         \/ Prompt /\ AddPending(t)
         \/ Prompt /\ ToolCallPush(t)
    \/ \E j \in Jobs :
         \/ Prompt /\ ToolResultAdd(j, "result")
         \/ Prompt /\ ToolResultPush(j)
         \/ Prompt /\ ToolResultComplete(j)
    \/ UIListen
    \/ UserSend(FALSE, MaxOverlapMsgs)

SpecBusy == Init /\ [][NextBusy]_vars

\* Responses of the specification of concurrent pushes: every way a round
\* ends, and rounds of one or two tool calls whose arguments parse or not.
SplitResponses ==
    {RespError, RespMessage("a", <<>>)}
    \cup {RespMessage("", calls) : calls \in CallLists({"plain"}, BOOLEAN)}

\* No push has panicked, and the terminal keeps up.
Alive == Prompt /\ \A t \in Tasks : pushCalls[t].pc # "panic"

\* The orchestrator with one user message at a time, where the pushes of
\* handleToolResult and of the bad-arguments branch run statement by
\* statement, interleaved with the steps of the other goroutines.
NextSplit ==
    \/ Alive /\ Start
    \/ Alive /\ EventLoopReceive
    \/ Alive /\ EventLoopPark
    \/ Alive /\ StartProcessingWithUserMessage
    \/ Alive /\ ProcessMessageReset
    \/ Alive /\ ProcessMessagePush
    \/ \E t \in Tasks :
         \/ Alive /\ ContinueEnter(t)
         \/ Alive /\ ContinueIncrement(t)
         \/ \E resp \in SplitResponses :
              /\ Alive
              /\ resp.calls # <<>> => barrier.n < MaxSplitRounds
              /\ ApiReturn(t, resp)
         \/ Alive /\ ContinueAddPush(t)
         \/ Alive /\ ContinueFinish(t)
         \/ Alive /\ ContinueReset(t)
         \/ Alive /\ ContinuePushReturn(t)
         \/ Alive /\ AddPending(t)
         \/ Alive /\ ToolCallPush(t)
         \/ Alive /\ BadArgsAdd(t)
         \/ Alive /\ BadArgsComplete(t)
         \/ Alive /\ PushGetMessages(t)
         \/ Alive /\ PushIsProcessing(t)
         \/ Alive /\ PushGetLastError(t)
         \/ Alive /\ PushSlice(t)
         \/ Alive /\ PushStore(t)
         \/ Alive /\ PushSendBadArgs(t)
    \/ \E j \in Jobs :
         \/ Alive /\ ToolResultAdd(j, "result")
         \/ Alive /\ PushSendResult(j)
         \/ Alive /\ ToolResultComplete(j)
    \/ UIListen
    \/ UserSend(TRUE, MaxUserMsgs)

SpecSplit == Init /\ [][NextSplit]_vars

\* Responses of the specification of repeated ids: a text, an error, or
\* two calls of a tool that runs, both with the id 1 (the ids are the
\* server's; nothing in handleToolCalls looks at them).
TwinResponses ==
    {RespError, RespMessage("a", <<>>),
     RespMessage("", <<ToolCall(1, TRUE, "plain"), ToolCall(1, TRUE, "plain")>>)}

\* The orchestrator with one user message at a time and a terminal that
\* keeps up, with a completion API that repeats an id within a response.
NextTwin ==
    \/ Prompt /\ Start
    \/ Prompt /\ EventLoopReceive
    \/ Prompt /\ EventLoopPark
    \/ Prompt /\ StartProcessingWithUserMessage
    \/ Prompt /\ ProcessMessageReset
    \/ Prompt /\ ProcessMessagePush
    \/ \E t \in Tasks :
         \/ Prompt /\ ContinueEnter(t)
         \/ Prompt /\ ContinueIncrement(t)
         \/ \E resp \in TwinResponses :
              /\ Prompt
              /\ resp.calls # <<>> => barrier.n < MaxToolRounds
              /\ ApiReturn(t, resp)
         \/ Prompt /\ ContinueAddPush(t)
         \/ Prompt /\ ContinueFinish(t)
         \/ Prompt /\ ContinueReset(t)
         \/ Prompt /\ ContinuePushReturn(t)
         \/ Prompt /\ AddPending(t)
         \/ Prompt /\ ToolCallPush(t)
    \/ \E j \in Jobs :
         \/ \E content \in {"result", "Error: failed"} :
              Prompt /\ ToolResultAdd(j, content)
         \/ Prompt /\ ToolResultPush(j)
         \/ Prompt /\ ToolResultComplete(j)
    \/ UIListen
    \/ UserSend(TRUE, MaxUserMsgs)

SpecTwin == Init /\ [][NextTwin]_vars

\* Responses of the specification of a slow terminal: a text, or one call
\* of a tool that runs.
SlowResponses ==
    {RespMessage("a", <<>>), RespMessage("", <<ToolCall(1, TRUE, "plain")>>)}

\* The orchestrator with a terminal whose listener takes the events of
\* CoreToUI whenever it gets to it: the core does not wait for it, CoreToUI
\* may be full when an update is sent, and is emptied later.
NextSlow ==
    \/ Start
    \/ EventLoopReceive
    \/ EventLoopPark
    \/ StartProcessingWithUserMessage
    \/ ProcessMessageReset
    \/ ProcessMessagePush
    \/ \E t \in Tasks :
         \/ ContinueEnter(t)
         \/ ContinueIncrement(t)
         \/ \E resp \in SlowResponses :
              /\ resp.calls # <<>> => barrier.n < MaxSlowRounds
              /\ ApiReturn(t, resp)
         \/ ContinueAddPush(t)
         \/ ContinueFinish(t)
         \/ ContinueReset(t)
         \/ ContinuePushReturn(t)
         \/ AddPending(t)
         \/ ToolCallPush(t)
    \/ \E j \in Jobs :
         \/ ToolResultAdd(j, "result")
         \/ ToolResultPush(j)
         \/ ToolResultComplete(j)
    \/ UIListen
    \/ UserSend(TRUE, MaxUserMsgs)

SpecSlow == Init /\ [][NextSlow]_vars

(***************************************************************************)
(* Properties of the orchestrator.                                         *)
(***************************************************************************)
\* The ids of the tool calls of the last round, and the ids of the tool
\* messages appended to the history since its assistant message.
RoundIds == {barrier.ids[k] : k \in 1..Len(barrier.ids)}
ResultIds ==
    {chatHistory[p].id : p \in {q \in (barrier.at + 1)..Len(chatHistory) :
                                   chatHistory[q].role = "tool"}}
AtRest ==
    \A t \in Tasks : tasks[t].pc \in {"idle", "parked", "stopped", "free"}

\* C1: in a round whose response carries N >= 1 tool calls with pairwise
\* distinct ids, whatever the order in which the N calls complete (calls
\* whose arguments do not parse included), continueConversation is invoked
\* for the next round exactly once - never twice, and once by the time every
\* task has come to rest - and only after a tool message for each of the N
\* calls has been appended to the history; all N ids are in the pending set
\* before the first call is dispatched.
C1_BarrierExactlyOnce ==
    /\ barrier.continues <= 1
    /\ barrier.continues = 1 => RoundIds \subseteq ResultIds
    /\ (barrier.n > 0 /\ AtRest) => barrier.continues = 1
    /\ \A t \in Tasks :
         (tasks[t].pc = "htc_push" /\ tasks[t].i = 1)
            => RoundIds \subseteq pendingToolCalls

\* A round of two calls, the first dispatched and the second with arguments
\* that do not parse, has been followed by its one continuation.
C1_Witness ==
    /\ barrier.continues = 1
    /\ Len(barrier.ids) = 2
    /\ chatHistory[barrier.at].calls[1].ok
    /\ ~chatHistory[barrier.at].calls[2].ok
    /\ RoundIds \subseteq ResultIds

\* C2: from a user message at depth 0, as long as every completion response
\* carries at least one tool call (any number per round) the depth is the
\* number of completion calls made, which never exceeds maxRecursionDepth =
\* 5; the attempt that finds the limit reached comes after exactly 5 calls
\* and ends the round with the recursion-limit error, no 6th call made.
C2_RecursionBound ==
    conv.allTool =>
        /\ conv.api <= MaxRecursionDepth
        /\ conv.active => recursionDepth = conv.api
        /\ \A t \in Tasks : tasks[t].pc = "cc_limit"
                               => conv.api = MaxRecursionDepth
        /\ lastError = ErrRecursion
              => conv.api = MaxRecursionDepth /\ ~isProcessing

\* The recursion-limit error after five rounds of tool calls, one of them a
\* round of more than one call.
C2_Witness ==
    /\ lastError = ErrRecursion
    /\ conv.allTool
    /\ conv.api = 5
    /\ barrier.rich = 1
    /\ AtRest

\* C3: in every reachable state, whatever the interleaving of the event
\* loop and the tool-result tasks, 0 <= recursionDepth <= maxRecursionDepth.
C3_DepthWithinBound ==
    recursionDepth \in 0..MaxRecursionDepth

(***************************************************************************)
(* Properties of the confirmations.                                        *)
(***************************************************************************)
\* The step in which the event loop finishes looking up an id that the
\* pending table does not hold.
UnknownIdHandled ==
    /\ tasks[0].pc = "hcr"
    /\ tasks[0].conf \notin pendingConfirms
    /\ tasks'[0] # tasks[0]

\* C4: with confirmation requests of distinct ids waiting at the same time,
\* a ConfirmationResponse of id X is delivered only into the channel
\* registered under X; a waiter receives at most one response, the first
\* delivered to it, and a response that finds one already in the channel is
\* dropped; handling a response whose id the pending table does not hold
\* changes nothing but the event loop's return to its select.
C4_ConfirmationCorrelation ==
    /\ [](\A c \in ConfIds :
            /\ \A k \in 1..Len(confLog[c].delivered) :
                 confLog[c].delivered[k].id = c
            /\ Len(respChans[c]) <= 1
            /\ Len(confLog[c].received) <= 1
            /\ confLog[c].received # <<>> =>
                 /\ confLog[c].delivered # <<>>
                 /\ confLog[c].received[1] = confLog[c].delivered[1].approved)
    /\ [][UnknownIdHandled =>
            /\ tasks' = [tasks EXCEPT ![0] = IdleTask("idle")]
            /\ UNCHANGED <<busVars, stateVars, envVars, ctxDone,
                           pushVars, confVars, ui, logVars>>]_vars

\* Two requests wait at the same time, one has received its response, and a
\* response that answers no pending confirmation has been put on the bus.
C4_Witness ==
    \E j, k \in Jobs :
        /\ tasks[j].pc = "rc_got"
        /\ tasks[k].pc = "rc_parked"
        /\ tasks[j].conf # tasks[k].conf
        /\ ui.others = 1
        /\ eb.uiToCore = <<>>
        /\ tasks[0].pc = "parked"

\* C5: once requestUserConfirmation has returned - after a response, after
\* the cancellation of the root context, or after the request could not be
\* sent to the UI - the pending table does not hold its id (the table holds
\* exactly the ids of the calls in progress); on the send-failure path it
\* has returned false and has received nothing.
C5_ConfirmationCleanup ==
    /\ pendingConfirms =
          {tasks[j].conf : j \in {k \in Jobs : tasks[k].pc \in
              {"rc_send", "rc_wait", "rc_parked", "rc_got", "rc_fail",
               "rc_cancel"}}}
    /\ \A c \in ConfIds :
         /\ confLog[c].returned # <<>> => c \notin pendingConfirms
         /\ confLog[c].via = "rc_fail" =>
              /\ confLog[c].returned = <<FALSE>>
              /\ confLog[c].received = <<>>
              /\ confLog[c].delivered = <<>>

\* Of two requests one has returned after its request was rejected by the
\* bus and the other after the cancellation.
C5_Witness ==
    \E c, d \in ConfIds :
        /\ confLog[c].via = "rc_fail"
        /\ confLog[d].via = "rc_cancel"
        /\ pendingConfirms = {}

Pushed == lastSentCount' # lastSentCount \/ pushLog' # pushLog

\* C11: each pushStateToUI (one push at a time) emits exactly the messages
\* added to the projection since the previous push - the updates emitted so
\* far, put end to end, are the projection as it was at the last push, so
\* no message is emitted twice and none is skipped, and a push that finds
\* nothing new emits an empty list - together with isProcessing and
\* lastError as they are at the push.
C11_IncrementalPush ==
    /\ [](/\ lastSentCount <= Len(GetMessages)
          /\ pushLog.emitted = SubSeq(GetMessages, 1, lastSentCount))
    /\ [][Pushed =>
            /\ pushLog'.last.Messages =
                  SubSeq(GetMessages, Len(pushLog.emitted) + 1, Len(GetMessages))
            /\ pushLog'.last.IsProcessing = isProcessing
            /\ pushLog'.last.Error = lastError
            /\ lastSentCount' = Len(GetMessages)]_vars

\* A push of exactly two new messages (an assistant text with its tool
\* call) after pushes that had emitted the projection before them.
C11_Witness ==
    /\ Len(pushLog.last.Messages) = 2
    /\ pushLog.last.Messages[1].Type = "Assistant"
    /\ pushLog.last.Messages[2].Type = "ToolCall"
    /\ Len(pushLog.emitted) > 5
    /\ pushLog.last.IsProcessing

\* The tool calls of assistant messages before position p of the history
\* that carry the id of the message at p: pairs of the position of the
\* assistant message and the index of the call.
MatchingCalls(p) ==
    {qk \in (1..(p - 1)) \X (1..MaxCalls) :
        /\ chatHistory[qk[1]].role = "assistant"
        /\ qk[2] <= Len(chatHistory[qk[1]].calls)
        /\ chatHistory[qk[1]].calls[qk[2]].id = chatHistory[p].id}

\* C12: in every reachable state, each tool-role message of the history
\* carries the id of exactly one tool call of the assistant messages before
\* it.
C12_ToolMessageMatchesOneCall ==
    \A p \in 1..Len(chatHistory) :
        chatHistory[p].role = "tool" => Cardinality(MatchingCalls(p)) = 1

\* The positions of the tool messages appended since the assistant message
\* of the last round, and those of them that carry the id x.
RoundResults ==
    {p \in (barrier.at + 1)..Len(chatHistory) : chatHistory[p].role = "tool"}
ResultsOf(x) == {p \in RoundResults : chatHistory[p].id = x}

\* What a tool message can hold.
ResultContents == ToolContents \cup {"Error parsing arguments"}

\* C13: in a round of N tool calls (distinct ids), whatever the order in
\* which the calls complete, the history gains one tool message per call id
\* and no other - never two for one id, and N once the round is complete -
\* each appended as one whole entry at the end; no step removes, changes or
\* reorders an entry the history already has.
C13_ToolMessagesAppended ==
    /\ [](/\ \A p \in RoundResults : chatHistory[p].id \in RoundIds
          /\ \A x \in RoundIds : Cardinality(ResultsOf(x)) <= 1
          /\ barrier.continues = 1 =>
                /\ Cardinality(RoundResults) = Len(barrier.ids)
                /\ \A x \in RoundIds : Cardinality(ResultsOf(x)) = 1)
    /\ [][chatHistory' # chatHistory =>
            /\ Len(chatHistory') = Len(chatHistory) + 1
            /\ SubSeq(chatHistory', 1, Len(chatHistory)) = chatHistory
            /\ chatHistory'[Len(chatHistory')].role = "tool" =>
                  chatHistory'[Len(chatHistory')] \in
                     {ToolMsg(x, c) : x \in RoundIds, c \in ResultContents}]_vars

\* A round of two dispatched calls is complete and the result of the second
\* call was appended before the result of the first.
C13_Witness ==
    /\ barrier.continues = 1
    /\ Len(barrier.ids) = 2
    /\ Len(chatHistory) = barrier.at + 2
    /\ chatHistory[barrier.at].calls[1].ok
    /\ chatHistory[barrier.at].calls[2].ok
    /\ chatHistory[barrier.at + 1] = ToolMsg(2, "result")
    /\ chatHistory[barrier.at + 2] = ToolMsg(1, "Error: failed")

\* The dispatched tool calls whose result has not been handled to the end
\* (handleToolResult has not yet called CompletePendingToolCall).
InFlight ==
    {j \in Jobs : tasks[j].pc \in
        {"ex_run", "rc_send", "rc_wait", "rc_parked", "rc_got", "rc_fail",
         "rc_cancel", "ex_tool", "htr_push", "htr_complete"}}

\* handleToolCalls is in its loops: calls of the round are still to be made
\* pending, dispatched or completed as parse failures.
InToolCallLoop ==
    \E t \in Tasks : tasks[t].pc \in
        {"htc_pend", "htc_push", "htc_bad_add", "htc_bad_complete",
         "htc_bad_push"}

\* C14: in every reachable state the pending set is empty if and only if no
\* dispatched tool call is still waiting for its result to be handled (read
\* with the calls that handleToolCalls has made pending and is about to
\* dispatch counted as waiting), and the step that issues a completion call
\* is taken only in states where the pending set is empty.
C14_PendingEmptyIffNothingInFlight ==
    /\ [](/\ pendingToolCalls = {} => InFlight = {}
          /\ pendingToolCalls # {} => (InFlight # {} \/ InToolCallLoop))
    /\ [][\A t \in Tasks :
            (tasks[t].pc = "cc_inc" /\ tasks'[t].pc = "cc_api")
               => pendingToolCalls = {}]_vars

\* C15: every ExecuteAsync call writes one ToolResult, carrying the id of
\* its call, to the result channel - never a second, and it never has to
\* wait for room - and closes the channel only after it has written, whether
\* the tool returns a result, returns an error or is not registered; for a
\* name that is not registered the result carries the not-found error and
\* Execute is not called. What handleToolResult receives is that result.
C15_ExecuteAsyncWritesOnce ==
    /\ [](\A j \in Jobs :
            LET e == executions[j]
            IN  /\ Len(e.written) <= 1
                /\ Len(e.resultChan) <= 1
                /\ e.pc = "write" => e.resultChan = <<>>
                /\ e.written # <<>> => e.written[1].CallID = e.call.id
                /\ e.closed => Len(e.written) = 1
                /\ e.pc = "done" => e.closed
                /\ e.executed => GetTool(e.call.tool)
                /\ (e.written # <<>> /\ ~GetTool(e.call.tool)) =>
                      e.written[1] = NotFoundResult(e.call)
                /\ (e.written # <<>> /\ GetTool(e.call.tool)) =>
                      e.executed /\ e.written[1].Error # "tool not found"
                /\ e.handled => e.written # <<>>)
    /\ [][\A j \in Jobs :
            /\ executions[j].closed => executions'[j].closed
                                        \/ executions'[j].pc # "done"
            /\ (executions'[j].handled /\ ~executions[j].handled) =>
                  chatHistory' = Append(chatHistory,
                      ToolMsg(executions[j].call.id,
                              ResultContent(executions[j].written[1])))]_vars

\* In one round a call of a tool the registry does not have has written its
\* not-found result and closed its channel, and a call of a tool that
\* returned an error has written that.
C15_Witness ==
    \E j, k \in Jobs :
        /\ executions[j].pc = "done"
        /\ executions[j].call.tool = "missing"
        /\ executions[j].written = <<NotFoundResult(executions[j].call)>>
        /\ ~executions[j].executed
        /\ executions[k].pc = "done"
        /\ executions[k].call.tool = "plain"
        /\ executions[k].written =
              <<ExecutedResult(executions[k].call, TRUE)>>
        /\ executions[j].call.id # executions[k].call.id
        /\ tasks[j].pc = "ex_run"
        /\ tasks[k].pc = "ex_run"

\* The ids of the calls of the last round whose arguments do not parse.
BadIds ==
    {barrier.ids[k] : k \in {i \in 1..Len(barrier.ids) :
                                ~chatHistory[barrier.at].calls[i].ok}}

ParseError == "Error parsing arguments"

\* C16: a tool call whose argument string does not parse is never handed to
\* a tool; the step after the failed parse appends the error tool message
\* with the call's id and the next removes the id from the pending set; the
\* other calls of the round are dispatched all the same and the barrier
\* counts them - the round continues once, after a result for every call,
\* and no round is left without its continuation.
C16_ParseFailureShortCircuits ==
    /\ [](/\ \A j \in Jobs : tasks[j].call.ok
          /\ \A p \in RoundResults :
                chatHistory[p].id \in BadIds <=> chatHistory[p].content = ParseError
          /\ \A t \in Tasks :
                tasks[t].pc \in {"htc_bad_add", "htc_bad_complete", "htc_bad_push"}
                   => ~tasks[t].calls[tasks[t].i].ok
          /\ barrier.continues = 1 => RoundIds \subseteq ResultIds
          /\ (barrier.n > 0 /\ AtRest) =>
                barrier.continues = 1 /\ pendingToolCalls = {})
    /\ [][\A t \in Tasks :
            /\ (tasks[t].pc = "htc_push" /\ tasks'[t] # tasks[t]
                 /\ ~tasks[t].calls[tasks[t].i].ok)
                  => /\ tasks'[t].pc = "htc_bad_add"
                     /\ \A j \in Jobs : tasks'[j].pc = "ex_run"
                                             => tasks[j].pc = "ex_run"
            /\ (tasks[t].pc = "htc_bad_add" /\ tasks'[t] # tasks[t])
                  => chatHistory' =
                        Append(chatHistory,
                               ToolMsg(tasks[t].calls[tasks[t].i].id, ParseError))
            /\ (tasks[t].pc = "htc_bad_complete" /\ tasks'[t] # tasks[t])
                  => pendingToolCalls' =
                        pendingToolCalls \ {tasks[t].calls[tasks[t].i].id}]_vars

\* A round of two calls is complete: the first did not parse and got its
\* error message, the second was dispatched after it and returned a result.
C16_Witness ==
    /\ barrier.continues = 1
    /\ Len(barrier.ids) = 2
    /\ BadIds = {1}
    /\ Len(chatHistory) >= barrier.at + 2
    /\ chatHistory[barrier.at + 1] = ToolMsg(1, ParseError)
    /\ chatHistory[barrier.at + 2] = ToolMsg(2, "result")

\* The positions of a task between the return of a completion call that
\* ended the round and the return of continueConversation.
Ending == {"cc_reset", "cc_push_ret"}

\* Task t is in handleToolCalls at the push that follows a parse failure of
\* the last call of the list (service.go:272), with allComplete false: what
\* is left of its work is that push and the return.
LastPushOfLoop(t) ==
    /\ tasks[t].pc = "htc_bad_push"
    /\ ~tasks[t].val
    /\ NextCall(t, tasks[t]).pc \in {"idle", "free"}

\* C17: when a completion call returns an error, that step leaves the
\* history as it is and sets isProcessing = false and the API error; the
\* handler then resets recursionDepth to 0 and pushes a state update that
\* carries the error; and as long as the error stands (until the next user
\* message clears it) the history does not change, no tool call is pending
\* or dispatched and no task makes, or is on its way to, a completion call.
C17_ApiErrorEndsRound ==
    /\ [](lastError = ErrAPI =>
            /\ ~isProcessing
            /\ pendingToolCalls = {}
            /\ InFlight = {}
            /\ \A t \in Tasks :
                  \/ tasks[t].pc \in Ending \cup
                        {"idle", "parked", "woken", "stopped", "free", "pm_start"}
                  \/ LastPushOfLoop(t)
            /\ (\A t \in Tasks : tasks[t].pc # "cc_reset") => recursionDepth = 0
            /\ (\A t \in Tasks : tasks[t].pc \notin Ending) =>
                  /\ pushLog.last.Error = ErrAPI
                  /\ ~pushLog.last.IsProcessing)
    /\ [][/\ (lastError' = ErrAPI /\ lastError # ErrAPI) =>
              /\ chatHistory' = chatHistory
              /\ \E t \in Tasks :
                    tasks[t].pc = "cc_api" /\ tasks'[t].pc = "cc_reset"
          /\ (lastError = ErrAPI /\ lastError' = ErrAPI) =>
              chatHistory' = chatHistory]_vars

\* The second completion call of a conversation, made by the task of a
\* tool result, has returned an error and its handler has run to the end.
C17_Witness ==
    /\ lastError = ErrAPI
    /\ AtRest
    /\ conv.api = 2
    /\ recursionDepth = 0
    /\ pushLog.last.Error = ErrAPI
    /\ chatHistory[Len(chatHistory)].role = "tool"
    /\ ui.Messages = GetMessages

\* The history from the last user message on: what the conversation in
\* progress, or the last one, has appended.
LastUser ==
    LET users == {p \in 1..Len(chatHistory) : chatHistory[p].role = "user"}
    IN  IF users = {} THEN 0 ELSE CHOOSE p \in users : \A q \in users : q <= p
Conversation ==
    IF LastUser = 0 THEN <<>>
    ELSE SubSeq(chatHistory, LastUser, Len(chatHistory))

\* The first completion response of the conversation carried one tool call.
OneToolCall == Len(Conversation) >= 2 /\ Len(Conversation[2].calls) = 1

\* ... and the second carried only text, which has been appended.
TextAfterTool ==
    /\ OneToolCall
    /\ Len(Conversation) = 4
    /\ Conversation[4] = AssistantMsg("a", <<>>)

AssistantText == [Type |-> "Assistant", Content |-> "a", ToolCallID |-> 0]

\* C18: for a user message whose first completion response carries one
\* tool call and whose second carries only text: the history of the
\* conversation is the user message, the assistant message with the call,
\* the tool message of that call, the assistant text, appended in this
\* order; the second completion call is issued with the tool message
\* appended and the pending set empty; the text is appended while
\* isProcessing is still set and the depth is 2; isProcessing is cleared
\* after that and recursionDepth reset after isProcessing is cleared; and
\* when the tasks have come to rest, the last state update built carries
\* isProcessing = false and the assistant text is the last message the
\* terminal has been given.
C18_ToolThenTextOrder ==
    /\ [](/\ chatHistory # <<>> => Conversation[1] = UserMsg
          /\ (OneToolCall /\ Len(Conversation) >= 3) =>
                Conversation[3] = ToolMsg(Conversation[2].calls[1].id,
                                          Conversation[3].content)
          /\ TextAfterTool =>
                /\ conv.api = 2
                /\ pendingToolCalls = {}
                /\ lastError = ErrNil
                /\ isProcessing =>
                      \E t \in Tasks : tasks[t].pc \in {"cc_add_push", "cc_fin"}
                /\ recursionDepth = 0 => ~isProcessing
                /\ recursionDepth \in {0, 2}
                /\ (AtRest /\ eb.coreToUI = <<>>) =>
                      /\ ~isProcessing
                      /\ recursionDepth = 0
                      /\ pushLog.last.type = "StateUpdate"
                      /\ ~pushLog.last.IsProcessing
                      /\ pushLog.emitted = GetMessages
                      /\ ui.Messages = GetMessages
                      /\ ui.Messages[Len(ui.Messages)] = AssistantText
                      /\ ~ui.Loading)
    /\ [][/\ Len(chatHistory') <= Len(chatHistory) + 1
          /\ SubSeq(chatHistory', 1, Len(chatHistory)) = chatHistory
          /\ (OneToolCall /\ conv'.api = 2 /\ conv.api = 1) =>
                /\ Len(Conversation) = 3
                /\ pendingToolCalls = {}
                /\ isProcessing
          /\ (TextAfterTool' /\ ~TextAfterTool) =>
                /\ Len(Conversation) = 3
                /\ conv.api = 2
                /\ isProcessing /\ isProcessing'
                /\ recursionDepth' = 2]_vars

\* Such a conversation has run to its end and the terminal has taken every
\* update.
C18_Witness ==
    /\ TextAfterTool
    /\ AtRest
    /\ eb.coreToUI = <<>>
    /\ ~ctxDone
    /\ chatHistory[3] = ToolMsg(1, "result")
    /\ ui.Messages[Len(ui.Messages)] = AssistantText
    /\ ~isProcessing /\ recursionDepth = 0

\* C19: with no completion client configured (NewChatService leaves the
\* client nil for a configuration that is not valid), a user message is
\* appended to the history, the step continueConversation then takes
\* clears isProcessing and sets the configuration error, and what is left
\* is the push of that state: no completion call is made, no tool call is
\* made pending or dispatched, and the history holds nothing but the user
\* messages.
C19_NoClientEndsAtOnce ==
    /\ [](~client =>
            /\ conv.api = 0
            /\ barrier.n = 0
            /\ pendingToolCalls = {}
            /\ recursionDepth = 0
            /\ \A j \in Jobs : tasks[j].pc = "free"
            /\ tasks[0].pc \in {"new", "idle", "parked", "woken", "stopped",
                                "pm_start", "pm_reset", "pm_push", "cc_enter",
                                "cc_push_ret"}
            /\ \A p \in 1..Len(chatHistory) : chatHistory[p] = UserMsg
            /\ Len(chatHistory) = ui.sent - Len(eb.uiToCore)
                                    - (IF tasks[0].pc = "pm_start" THEN 1 ELSE 0)
            /\ lastError \in {ErrNil, ErrNoClient}
            /\ tasks[0].pc \in {"pm_reset", "pm_push", "cc_enter"} =>
                  isProcessing /\ lastError = ErrNil
            /\ (chatHistory # <<>> /\ tasks[0].pc \in
                    {"cc_push_ret", "idle", "parked", "woken", "stopped"}) =>
                  /\ ~isProcessing
                  /\ lastError = ErrNoClient
            /\ (chatHistory # <<>> /\ tasks[0].pc \in
                    {"idle", "parked", "woken", "stopped"}) =>
                  /\ pushLog.last.Error = ErrNoClient
                  /\ ~pushLog.last.IsProcessing
                  /\ pushLog.emitted = GetMessages)
    /\ [][(~client /\ tasks[0].pc = "cc_enter" /\ tasks'[0].pc # "cc_enter") =>
              /\ tasks'[0].pc = "cc_push_ret"
              /\ ~isProcessing'
              /\ lastError' = ErrNoClient
              /\ chatHistory' = chatHistory]_vars

\* A user message has been handled by a service that has no client, and
\* the terminal has taken the update that carries the error.
C19_Witness ==
    /\ ~client
    /\ chatHistory = <<UserMsg>>
    /\ AtRest
    /\ ~isProcessing
    /\ lastError = ErrNoClient
    /\ pushLog.last.Error = ErrNoClient
    /\ ui.Messages = GetMessages
    /\ eb.coreToUI = <<>>

\* The conversation in progress, or the last one, was started by a user
\* message that found the error of a completion call or of the recursion
\* limit left by the conversation before it.
AfterErrorRound == conv.after \in {ErrAPI, ErrRecursion}

\* C20: after a round ended by an API error or by the recursion-limit
\* error, the next SendMessage event is handled like the first: the step
\* that appends the user message sets isProcessing and clears lastError,
\* the next resets recursionDepth to 0, the conversation then issues a
\* completion call at depth 1, and it is stopped by the recursion limit
\* only after maxRecursionDepth completion calls of its own.
C20_NextMessageAfterError ==
    /\ [](AfterErrorRound =>
            /\ tasks[0].pc \in {"pm_reset", "pm_push"} =>
                  isProcessing /\ lastError = ErrNil
            /\ tasks[0].pc = "pm_push" => recursionDepth = 0 /\ conv.api = 0
            /\ \A t \in Tasks :
                  /\ tasks[t].pc \in {"cc_enter", "cc_inc", "cc_limit"} =>
                        recursionDepth = conv.api
                  /\ tasks[t].pc = "cc_api" =>
                        /\ recursionDepth = conv.api
                        /\ conv.api \in 1..MaxRecursionDepth
                        /\ isProcessing /\ lastError = ErrNil
                  /\ tasks[t].pc = "cc_limit" => conv.api = MaxRecursionDepth)
    /\ [][(tasks[0].pc = "pm_start" /\ tasks'[0].pc # "pm_start"
              /\ lastError \in {ErrAPI, ErrRecursion}) =>
             /\ isProcessing' /\ lastError' = ErrNil
             /\ chatHistory' = Append(chatHistory, UserMsg)
             /\ tasks'[0].pc = "pm_reset"]_vars

\* A conversation ended by the recursion limit; the next user message was
\* handled, and its conversation made maxRecursionDepth completion calls
\* before it was ended by the limit in its turn.
C20_Witness ==
    /\ conv.after = ErrRecursion
    /\ conv.api = MaxRecursionDepth
    /\ lastError = ErrRecursion
    /\ AtRest
    /\ ui.sent = 2
    /\ Len(chatHistory) = 2 * (1 + 2 * MaxRecursionDepth)

\* The jobs whose tool has not returned yet, or whose result is being
\* handled.
Running ==
    {j \in Jobs : tasks[j].pc \in {"ex_run", "rc_send", "rc_wait", "rc_parked",
                                    "rc_fail", "rc_got", "rc_cancel", "ex_tool",
                                    "htr_push", "htr_complete"}}

\* The completion responses of the conversation that carried tool calls.
ToolRounds ==
    Cardinality({p \in 1..Len(Conversation) : Conversation[p].calls # <<>>})

\* The content of the tool message for a tool that returned an error, for
\* a tool the registry does not have, and for a confirmation the user
\* denied.
FailureContents == {"Error: failed", "Error: tool not found", "aborted"}

\* C21: a tool that returns an error, a tool name the registry does not
\* have and a confirmation the user denies each end in the step that
\* appends a tool message with the call's id ("Error: tool not found" for
\* the unknown name, the aborted result for the denial); that step leaves
\* isProcessing true and lastError unset, as they are for as long as a call
\* is running; the step that empties the pending set takes its task into
\* continueConversation, which goes on to the next completion call; and
\* when the tasks have come to rest every round of tool calls has been
\* followed by a completion call.
C21_ToolFailuresKeepRound ==
    /\ [](/\ Running # {} => isProcessing /\ lastError = ErrNil
          /\ \A j \in Jobs :
                tasks[j].pc \in {"htr_push", "htr_complete"} =>
                   \E p \in RoundResults : chatHistory[p].id = tasks[j].call.id
          /\ (AtRest /\ conv.api > 0) =>
                /\ conv.api = ToolRounds + 1
                /\ ~isProcessing /\ lastError = ErrNil)
    /\ [][/\ \A j \in Jobs :
               (tasks'[j].pc = "htr_push" /\ tasks[j].pc # "htr_push") =>
                  /\ \E c \in ToolContents :
                        /\ chatHistory' =
                              Append(chatHistory, ToolMsg(tasks[j].call.id, c))
                        /\ tasks[j].call.tool = "missing" =>
                              c = "Error: tool not found"
                        /\ (tasks[j].call.tool = "confirm" /\ ~tasks[j].val) =>
                              c = "aborted"
                  /\ isProcessing' /\ lastError' = ErrNil
          /\ (pendingToolCalls # {} /\ pendingToolCalls' = {}) =>
               /\ isProcessing' /\ lastError' = ErrNil
               /\ \E t \in Tasks :
                     tasks[t].pc # "cc_enter" /\ tasks'[t].pc = "cc_enter"
          /\ \A t \in Tasks :
               /\ (tasks[t].pc = "cc_enter" /\ tasks'[t].pc # "cc_enter"
                     /\ barrier.n > 0) => tasks'[t].pc = "cc_inc"
               /\ (tasks[t].pc = "cc_inc" /\ tasks'[t].pc # "cc_inc") =>
                     tasks'[t].pc = "cc_api" /\ conv'.api = conv.api + 1]_vars

\* A conversation of three completion calls has ended without an error:
\* its first round had a call of an unknown tool and a call the user
\* denied, its second a call of a tool that returned an error.
C21_Witness ==
    /\ AtRest /\ conv.api = 3 /\ ~isProcessing /\ lastError = ErrNil
    /\ Len(chatHistory) = 7
    /\ {chatHistory[3].content, chatHistory[4].content} =
          {"Error: tool not found", "aborted"}
    /\ chatHistory[6] = ToolMsg(1, "Error: failed")
    /\ chatHistory[7] = AssistantMsg("a", <<>>)

\* SendToUI would return an error for the update pushStateToUI builds in
\* this state.
SendWouldFail == SendToUI(eb, StateUpdateEvent).err # ErrNil

\* Every task that is at a pushStateToUI can take that step.
PushNeverWaits ==
    /\ tasks[0].pc = "new" => ENABLED Start
    /\ tasks[0].pc = "pm_push" => ENABLED ProcessMessagePush
    /\ \A t \in Tasks :
          /\ tasks[t].pc = "cc_add_push" => ENABLED ContinueAddPush(t)
          /\ tasks[t].pc = "cc_push_ret" => ENABLED ContinuePushReturn(t)
          /\ tasks[t].pc = "htc_bad_push" => ENABLED BadArgsPush(t)
          /\ (tasks[t].pc = "htc_push" /\ FreeJobs # {}) =>
                ENABLED ToolCallPush(t)
          /\ tasks[t].pc = "htr_push" => ENABLED ToolResultPush(t)

\* Every tool call of the conversation has a tool message, after the
\* assistant message that carries it.
AllCallsAnswered ==
    \A p \in 1..Len(Conversation) :
       \A k \in 1..Len(Conversation[p].calls) :
          \E q \in (p + 1)..Len(Conversation) :
             /\ Conversation[q].role = "tool"
             /\ Conversation[q].id = Conversation[p].calls[k].id

\* C22: a pushStateToUI step, whether SendToUI takes the update or returns
\* an error for it, leaves the history, isProcessing, lastError, the
\* pending set and recursionDepth as they are; no task waits at a push for
\* the bus to take the update, so with the updates dropped the round goes
\* on as it does with them delivered: every call gets its tool message,
\* each round of tool calls is followed by the next completion call, and
\* the conversation ends with isProcessing cleared and the pending set
\* empty.
C22_FailedPushChangesNothing ==
    /\ [](/\ PushNeverWaits
          /\ (AtRest /\ conv.api > 0) =>
                /\ ~isProcessing /\ lastError = ErrNil
                /\ pendingToolCalls = {}
                /\ recursionDepth = 0
                /\ conv.api = ToolRounds + 1
                /\ AllCallsAnswered)
    /\ [][Pushed =>
            /\ UNCHANGED <<chatHistory, isProcessing, lastError,
                           pendingToolCalls, recursionDepth>>
            /\ pushLog'.dropped = pushLog.dropped +
                                     (IF SendWouldFail THEN 1 ELSE 0)
            /\ lastSentCount' = Len(GetMessages)]_vars

\* A conversation of a tool call and a text has run to its end although
\* the terminal stopped listening: updates were dropped, and the terminal
\* has not been given the whole of the history.
C22_Witness ==
    /\ ui.stalled
    /\ pushLog.dropped >= 2
    /\ AtRest /\ ~isProcessing
    /\ TextAfterTool
    /\ conv.api = 2
    /\ Len(ui.Messages) + 2 < Len(GetMessages)

\* The step appends a user message to the history.
UserMessageAppended ==
    /\ Len(chatHistory') = Len(chatHistory) + 1
    /\ chatHistory'[Len(chatHistory')] = UserMsg

\* C24: lastError is set only while isProcessing is false; a user message
\* is appended in the very step that sets isProcessing and clears
\* lastError (StartProcessingWithUserMessage), and isProcessing is cleared
\* in the very step that sets or clears lastError (FinishProcessing,
\* FinishProcessingWithError): no step changes the one and leaves the other
\* for a later step.
C24_ProcessingAndErrorTogether ==
    /\ [](lastError # ErrNil => ~isProcessing)
    /\ [][/\ UserMessageAppended =>
               /\ isProcessing' /\ lastError' = ErrNil
               /\ chatHistory' = Append(chatHistory, UserMsg)
          /\ (isProcessing' /\ ~isProcessing) => UserMessageAppended
          /\ (~isProcessing' /\ isProcessing) =>
               /\ chatHistory' = chatHistory
               /\ lastError' \in {ErrNil, ErrAPI, ErrRecursion, ErrNoClient}
          /\ (lastError' # lastError /\ lastError' # ErrNil) =>
               ~isProcessing' /\ chatHistory' = chatHistory
          /\ (lastError' # lastError /\ lastError' = ErrNil) =>
               UserMessageAppended \/ ~isProcessing']_vars

\* A conversation was ended by the recursion limit: the error is set and
\* isProcessing is false.
C24_Witness ==
    /\ lastError = ErrRecursion
    /\ ~isProcessing
    /\ conv.api = MaxRecursionDepth
    /\ \E t \in Tasks : tasks[t].pc = "cc_push_ret"

\* A ConfirmationResponse with id c and value a is on UIToCore while a
\* tool task waits in requestUserConfirmation for the response to c.
ResponseQueued(c, a) ==
    /\ \E k \in 1..Len(eb.uiToCore) :
          eb.uiToCore[k] = [type |-> "ConfirmationResponse", ID |-> c,
                            Approved |-> a]
    /\ \E j \in Jobs :
          tasks[j].pc \in {"rc_wait", "rc_parked"} /\ tasks[j].conf = c

\* C25: a tool task that waits in requestUserConfirmation does not keep
\* the event loop from its events: a ConfirmationResponse with the id the
\* task waits for, once on UIToCore, is eventually handled and the call of
\* requestUserConfirmation returns the value that response carries.
C25_ResponseReachesWaitingCall ==
    \A c \in ConfIds : \A a \in BOOLEAN :
       ResponseQueued(c, a) ~> (confLog[c].returned = <<a>>)

\* The user denied the first confirmation and the waiting call returned
\* false through its response branch, with the tool's result appended.
C25_Witness ==
    /\ confLog[1].via = "rc_got"
    /\ confLog[1].returned = <<FALSE>>
    /\ confLog[1].delivered = <<[id |-> 1, approved |-> FALSE]>>
    /\ \E p \in 1..Len(chatHistory) : chatHistory[p].content = "aborted"

\* C26: once the root context is cancelled the event loop takes no further
\* event from UIToCore, whether or not events are queued at that moment:
\* no step that starts after the cancellation moves the event loop from
\* its select into processMessage or handleConfirmationResponse.
C26_NoEventAfterCancel ==
    [][(ctxDone /\ tasks[0].pc \in {"idle", "woken", "parked"}) =>
          tasks'[0].pc \notin {"pm_start", "hcr"}]_vars

\* A tool task waits in requestUserConfirmation for the response to c.
AwaitingAnswer(c) ==
    \E j \in Jobs : tasks[j].pc \in {"rc_wait", "rc_parked"} /\ tasks[j].conf = c

\* C27: with goroutines scheduled fairly, completion calls and tools that
\* return, and no confirmation left waiting for ever (each is answered or
\* cancelled), a state with isProcessing = true - which a processed user
\* message sets up - is always followed by one with isProcessing = false.
C27_ProcessingEnds ==
    (\A c \in ConfIds : []<>~AwaitingAnswer(c)) =>
        (isProcessing ~> ~isProcessing)

\* A user message has been through rounds of tool calls up to the
\* recursion limit, which ended its processing.
C27_Witness ==
    /\ ~isProcessing /\ lastError = ErrRecursion
    /\ Len(SelectSeq(chatHistory, LAMBDA x : x = UserMsg)) >= 1
    /\ \A t \in Tasks : tasks[t].pc \in {"idle", "parked", "free", "stopped"}

\* C28: the orchestrator is idle only when nothing is in flight, also when
\* a user message is processed while tool calls of an earlier round are
\* running: with isProcessing = false the pending set is empty and no
\* dispatched tool call is still to be handled.
C28_IdleMeansNothingInFlight ==
    ~isProcessing => (pendingToolCalls = {} /\ InFlight = {})

\* In the message list ms each assistant message with tool calls has the
\* tool messages of all its call ids before the next user or assistant
\* message.
WellFormedMessages(ms) ==
    \A p \in 1..Len(ms) :
       (ms[p].role = "assistant" /\ ms[p].calls # <<>>) =>
          \A q \in (p + 1)..Len(ms) :
             ms[q].role \in {"user", "assistant"} =>
                \A k \in 1..Len(ms[p].calls) :
                   \E r \in (p + 1)..(q - 1) :
                      ms[r].role = "tool" /\ ms[r].id = ms[p].calls[k].id

\* C29: whatever the interleaving of user messages with running tool
\* calls, the message list a task hands to the completion API (the history
\* it reads as it leaves IncrementRecursion for the call) is well-formed.
C29_RequestsWellFormed ==
    [][\A t \in Tasks :
          (tasks[t].pc = "cc_inc" /\ tasks'[t].pc = "cc_api") =>
             WellFormedMessages(GetChatHistoryWithSystemPrompt(chatHistory))]_vars

\* The tasks whose completion call has been issued and has not returned.
Calling == {t \in Tasks : tasks[t].pc = "cc_api"}

\* C30: at most one completion call is in progress at any time, whether
\* issued by the event-loop task or by a tool-result task.
C30_OneCompletionCall == Cardinality(Calling) <= 1

\* s is an initial part of q.
IsPrefix(s, q) == Len(s) <= Len(q) /\ s = SubSeq(q, 1, Len(s))

\* C31: with pushStateToUI running in several tasks at once, no push
\* slices beyond the projection it read (lastSentCount is never larger than
\* the length of allMessages) and the messages emitted so far are the
\* projection's messages in log order, none twice and none skipped.
C31_ConcurrentPushesExact ==
    /\ \A t \in Tasks : pushCalls[t].pc # "panic"
    /\ IsPrefix(pushLog.emitted, GetMessages)

\* C32: a StateUpdate carries values that ConversationState held together:
\* no update that pushStateToUI builds, and none on the way to the
\* terminal, has IsProcessing = true together with an error, also when
\* another task changes the state between the reads of pushStateToUI.
C32_UpdatesAreSnapshots ==
    /\ ~(pushLog.last.IsProcessing /\ pushLog.last.Error # ErrNil)
    /\ \A k \in 1..Len(eb.coreToUI) :
          eb.coreToUI[k].type = "StateUpdate" =>
             ~(eb.coreToUI[k].IsProcessing /\ eb.coreToUI[k].Error # ErrNil)

\* The last response with tool calls carried two calls with one id.
TwinRound == Len(barrier.ids) = 2 /\ barrier.ids[1] = barrier.ids[2]

\* C33: when a response carries two tool calls with the same id, the
\* conversation is continued (continueAfterAllToolsComplete) once for that
\* round, and only when the results of both calls are in the history.
C33_TwinIdsContinueOnce ==
    TwinRound =>
       /\ barrier.continues <= 1
       /\ barrier.continues >= 1 => Cardinality(RoundResults) = 2

\* The messages of the StateUpdates in the channel ch, in order.
RECURSIVE QueuedMessages(_)
QueuedMessages(ch) ==
    IF ch = <<>> THEN <<>>
    ELSE (IF Head(ch).type = "StateUpdate" THEN Head(ch).Messages ELSE <<>>)
         \o QueuedMessages(Tail(ch))

\* The messages of the StateUpdates SendToUI has accepted so far: those the
\* terminal has appended to its list and those still in CoreToUI.
Accepted == ui.Messages \o QueuedMessages(eb.coreToUI)

\* The step is a pushStateToUI whose SendToUI returned no error.
PushedAndSent == Pushed /\ pushLog'.dropped = pushLog.dropped

\* C34: a StateUpdate that SendToUI accepts makes up for the updates
\* dropped before it: after every accepted update the terminal has been
\* sent every message of the projection.
C34_DroppedMessagesResent ==
    [][PushedAndSent => Accepted' = GetMessages']_vars

\* C35: when the terminal has taken every StateUpdate off CoreToUI and no
\* send has failed, the list it has built by appending the deltas is the
\* core's projection, in the same order (here: at least an initial part of
\* it, which any reading of "equals" requires).
C35_TerminalListIsProjection ==
    (eb.coreToUI = <<>> /\ pushLog.dropped = 0) =>
        IsPrefix(ui.Messages, GetMessages)

\* C36: with a user who answers every prompt, a tool task that waits for
\* a confirmation does not wait for ever, also when the terminal receives a
\* second ConfirmationRequest before the first is answered: each request
\* is answered with its own id and the waiting call returns.
C36_EveryRequestAnswered ==
    \A c \in ConfIds : AwaitingAnswer(c) ~> ~AwaitingAnswer(c)

(***************************************************************************)
(* Properties of the bus.                                                  *)
(***************************************************************************)
Breaker == eb.circuitBreaker

\* C7: starting from closed, the breaker is open exactly when maxFailures
\* send failures have been recorded with no successful send between them:
\* the failure count is the number of consecutive failed sends, a successful
\* send resets it to 0 and leaves the breaker closed, and fewer than
\* maxFailures consecutive failures never open it.
C7_OpenExactlyAtMaxFailures ==
    /\ Breaker.failureCount = lastSend.consecutive
    /\ (Breaker.state = CircuitClosed) <=> (lastSend.consecutive < MaxFailures)
    /\ (lastSend.op # "none" /\ lastSend.err = ErrNil)
          => Breaker.failureCount = 0 /\ Breaker.state = CircuitClosed

C7_Witness ==
    /\ Breaker.state = CircuitOpen
    /\ lastSend.consecutive = MaxFailures
    /\ lastSend.err = ErrChannelFull

\* C8: with the breaker open and resetTimeout elapsed since the last
\* failure, the IsOpen() check of the next send makes it half-open and the
\* send goes on to the channel; from half-open a successful send closes the
\* breaker with failure count 0 and a failed one opens it again; the breaker
\* becomes half-open in no other step than an IsOpen() check.
C8_HalfOpenTransitions ==
    [][ /\ (/\ busCall.pc = "check" /\ busCall'.pc # "check"
            /\ Breaker.state = CircuitOpen
            /\ Breaker.sinceLastFailure > ResetTimeout)
           => /\ eb'.circuitBreaker.state = CircuitHalfOpen
              /\ busCall'.pc = "select"
        /\ (/\ busCall.pc = "select" /\ busCall'.pc = "idle"
            /\ Breaker.state = CircuitHalfOpen)
           => IF lastSend'.err = ErrNil
              THEN /\ eb'.circuitBreaker.state = CircuitClosed
                   /\ eb'.circuitBreaker.failureCount = 0
              ELSE eb'.circuitBreaker.state = CircuitOpen
        /\ (/\ Breaker.state # CircuitHalfOpen
            /\ eb'.circuitBreaker.state = CircuitHalfOpen)
           => busCall.pc = "check" /\ busCall'.pc = "select"
      ]_vars

C8_Witness ==
    /\ busCall.pc = "select"
    /\ Breaker.state = CircuitHalfOpen
    /\ Len(eb[ChanOf(busCall.op)]) = ChanCap
    /\ lastSend.err = ErrCircuitOpen

\* C9: while the breaker is open and resetTimeout has not elapsed, a send
\* (SendToCore or SendToUI) takes the circuit-open return, and neither its
\* check nor its return changes the contents of either channel.
C9_OpenRejectsWithoutSending ==
    [][ /\ (/\ busCall.pc = "check" /\ busCall'.pc # "check"
            /\ Breaker.state = CircuitOpen
            /\ Breaker.sinceLastFailure <= ResetTimeout)
           => /\ busCall'.pc = "rejected"
              /\ eb'.uiToCore = eb.uiToCore
              /\ eb'.coreToUI = eb.coreToUI
        /\ (busCall.pc = "rejected" /\ busCall'.pc # "rejected")
           => /\ lastSend'.err = ErrCircuitOpen
              /\ lastSend'.op = busCall.op
              /\ busCall'.pc = "idle"
              /\ eb'.uiToCore = eb.uiToCore
              /\ eb'.coreToUI = eb.coreToUI
      ]_vars

C9_Witness ==
    /\ lastSend.err = ErrCircuitOpen
    /\ lastSend.op = "SendToCore"
    /\ Breaker.state = CircuitOpen
    /\ Len(eb.uiToCore) < ChanCap

\* C10: a send never blocks: at its select the step is always possible, and
\* when the target channel holds ChanCap events the call returns the
\* channel-full error, both channels are unchanged, the failure count grows
\* by one and the error callback fires exactly if one is set.
C10_FullChannelIsReportedFailure ==
    [][ /\ busCall.pc = "select" => ENABLED SendSelect
        /\ (/\ busCall.pc = "select" /\ busCall'.pc # "select"
            /\ Len(eb[ChanOf(busCall.op)]) = ChanCap)
           => /\ busCall'.pc = "idle"
              /\ lastSend'.err = ErrChannelFull
              /\ lastSend'.op = busCall.op
              /\ eb'.uiToCore = eb.uiToCore
              /\ eb'.coreToUI = eb.coreToUI
              /\ eb'.circuitBreaker.failureCount = Breaker.failureCount + 1
              /\ lastSend'.fired = eb.errorCallback
      ]_vars

C10_Witness ==
    /\ lastSend.err = ErrChannelFull
    /\ lastSend.op = "SendToUI"
    /\ lastSend.fired
    /\ Len(eb.coreToUI) = ChanCap

\* C37: SendToCore and SendToUI work on one breaker.  Whichever direction
\* the calling send has and whichever the last one had: the check rejects
\* the send exactly when the breaker is open and resetTimeout has not
\* elapsed; a send that returns an error adds one to the one failure count
\* and opens the breaker once it reaches maxFailures; a send that returns
\* no error sets the count to 0 and closes the breaker.
C37_OneBreakerForBothDirections ==
    [][ /\ (busCall.pc = "check" /\ busCall'.pc # "check")
           => (busCall'.pc = "rejected") <=>
                 (/\ Breaker.state = CircuitOpen
                  /\ Breaker.sinceLastFailure <= ResetTimeout)
        /\ (busCall.pc \in {"rejected", "select"} /\ busCall'.pc = "idle")
           => IF lastSend'.err = ErrNil
              THEN /\ eb'.circuitBreaker.failureCount = 0
                   /\ eb'.circuitBreaker.state = CircuitClosed
              ELSE /\ eb'.circuitBreaker.failureCount = Breaker.failureCount + 1
                   /\ eb'.circuitBreaker.failureCount >= MaxFailures
                         => eb'.circuitBreaker.state = CircuitOpen
      ]_vars

\* SendToCore is being rejected although its own channel is empty: the
\* last send, a SendToUI, failed on a full CoreToUI and left the breaker
\* open.
C37_Witness ==
    /\ busCall.op = "SendToCore" /\ busCall.pc = "rejected"
    /\ eb.uiToCore = <<>>
    /\ lastSend.op = "SendToUI" /\ lastSend.err = ErrChannelFull
    /\ Len(eb.coreToUI) = ChanCap
    /\ Breaker.state = CircuitOpen

\* A send is at its IsOpen check more than resetTimeout after the breaker
\* opened, and every two failures recorded since then, the one before this
\* check included, were less than resetTimeout apart.
LateCheck ==
    /\ busCall.pc = "check"
    /\ Breaker.state = CircuitOpen
    /\ lastSend.sinceOpened > ResetTimeout
    /\ lastSend.maxGap < ResetTimeout
    /\ Breaker.sinceLastFailure < ResetTimeout

C23_NoLostUpdates ==
    (AllIdle /\ sendCalls.window.valid) =>
       /\ eb.circuitBreaker.failureCount =
             sendCalls.window.base + sendCalls.window.k
       /\ eb.circuitBreaker.failureCount >= MaxFailures =>
             eb.circuitBreaker.state = CircuitOpen

====
